---------------------------- MODULE Spec2Model ----------------------------
(***************************************************************************)
(* A model of the fuego server (server/src/main.rs): the HTTP router, the  *)
(* three transfer builders, the legacy submit handler and the x402         *)
(* pay-and-retry handler.                                                  *)
(*                                                                         *)
(* Text is a sequence of one-character strings, so that lengths, parsing   *)
(* and formatting are computed.  Bytes are the integers 0..255.            *)
(***************************************************************************)
EXTENDS Integers, Sequences, FiniteSets, TLC

(***************************************************************************)
(* Option<T> and Result<T, E>                                              *)
(***************************************************************************)
None == [some |-> FALSE, val |-> <<>>]
Some(v) == [some |-> TRUE, val |-> v]
Ok(v) == [ok |-> TRUE, val |-> v, err |-> <<>>]
Err(e) == [ok |-> FALSE, val |-> <<>>, err |-> e]

(***************************************************************************)
(* Characters                                                              *)
(***************************************************************************)
Digits == <<"0","1","2","3","4","5","6","7","8","9">>

\* Index of the first c in the sequence s, 0 when it does not occur.
IndexOf(s, c) ==
    IF \E i \in 1..Len(s) : s[i] = c
    THEN CHOOSE i \in 1..Len(s) : s[i] = c /\ \A j \in 1..(i - 1) : s[j] # c
    ELSE 0

IsDigit(c) == IndexOf(Digits, c) # 0
DigitVal(c) == IndexOf(Digits, c) - 1

\* Characters outside ASCII that the inputs use, with their UTF-8 width.
WideChars == {"é"}
Utf8Width(c) == IF c \in WideChars THEN 2 ELSE 1

\* str::len(): the length of a string in bytes.
RECURSIVE ByteLen(_)
ByteLen(s) == IF s = <<>> THEN 0 ELSE Utf8Width(Head(s)) + ByteLen(Tail(s))

\* Concatenation of a sequence of strings.
RECURSIVE Concat(_)
Concat(parts) == IF parts = <<>> THEN <<>> ELSE Head(parts) \o Concat(Tail(parts))

(***************************************************************************)
(* Number formatting and parsing                                           *)
(***************************************************************************)
\* Display of a u64: its decimal digits.
RECURSIVE FormatU64(_)
FormatU64(n) ==
    IF n < 10 THEN <<Digits[n + 1]>>
    ELSE FormatU64(n \div 10) \o <<Digits[(n % 10) + 1]>>

AllDigits(s) == \A i \in 1..Len(s) : IsDigit(s[i])

RECURSIVE DigitsValue(_, _)
DigitsValue(s, acc) ==
    IF s = <<>> THEN acc
    ELSE DigitsValue(Tail(s), acc * 10 + DigitVal(Head(s)))

\* The longest decimal text the model turns into a number.
MaxDigits == 10

\* str::parse::<u64>(): an optional "+", then one or more digits.
ParseU64(s) ==
    LET body == IF s # <<>> /\ Head(s) = "+" THEN Tail(s) ELSE s
    IN  IF body = <<>> \/ ~AllDigits(body) \/ Len(body) > MaxDigits
        THEN Err("ParseIntError")
        ELSE Ok(DigitsValue(body, 0))

Lower(c) ==
    CASE c = "N" -> "n" [] c = "A" -> "a" [] c = "I" -> "i"
      [] c = "F" -> "f" [] c = "T" -> "t" [] c = "Y" -> "y"
      [] c = "E" -> "e"
      [] OTHER -> c
LowerStr(s) == [i \in 1..Len(s) |-> Lower(s[i])]

\* The longest exponent text, and the largest power of ten, the model turns
\* into a number.
MaxExponentDigits == 2
MaxExponent == 20

\* str::parse::<f64>() on decimal text: an optional sign, then "nan", "inf",
\* "infinity" (any case) or digits with an optional point and an optional
\* exponent ("e" or "E", an optional sign, digits).  A value is
\* [kind, neg, int, frac, exp]: the digits before and after the point and
\* the power of ten they are multiplied by.
ParseF64(s) ==
    LET signed  == s # <<>> /\ Head(s) \in {"+", "-"}
        neg     == s # <<>> /\ Head(s) = "-"
        body    == IF signed THEN Tail(s) ELSE s
        low     == LowerStr(body)
        epos    == IndexOf(low, "e")
        mant    == IF epos = 0 THEN body ELSE SubSeq(body, 1, epos - 1)
        etext   == IF epos = 0 THEN <<>> ELSE SubSeq(body, epos + 1, Len(body))
        esigned == etext # <<>> /\ Head(etext) \in {"+", "-"}
        edigits == IF esigned THEN Tail(etext) ELSE etext
        exp     == IF epos = 0 THEN 0
                   ELSE IF esigned /\ Head(etext) = "-"
                   THEN 0 - DigitsValue(edigits, 0)
                   ELSE DigitsValue(edigits, 0)
        dot     == IndexOf(mant, ".")
        ip      == IF dot = 0 THEN mant ELSE SubSeq(mant, 1, dot - 1)
        fp      == IF dot = 0 THEN <<>> ELSE SubSeq(mant, dot + 1, Len(mant))
    IN  IF low = <<"n","a","n">>
        THEN Ok([kind |-> "nan", neg |-> neg, int |-> <<>>, frac |-> <<>>,
                 exp |-> 0])
        ELSE IF low = <<"i","n","f">> \/ low = <<"i","n","f","i","n","i","t","y">>
        THEN Ok([kind |-> "inf", neg |-> neg, int |-> <<>>, frac |-> <<>>,
                 exp |-> 0])
        ELSE IF /\ AllDigits(ip) /\ AllDigits(fp)
                /\ Len(ip) + Len(fp) > 0
                /\ Len(ip) + Len(fp) <= MaxDigits
                /\ epos # 0 => /\ edigits # <<>> /\ AllDigits(edigits)
                               /\ Len(edigits) <= MaxExponentDigits
                               /\ Len(fp) - exp <= MaxDigits
                               /\ exp - Len(fp) <= MaxExponent
        THEN Ok([kind |-> "finite", neg |-> neg, int |-> ip, frac |-> fp,
                 exp |-> exp])
        ELSE Err("ParseFloatError")

RECURSIVE Pow10(_)
Pow10(k) == IF k = 0 THEN 1 ELSE 10 * Pow10(k - 1)

RECURSIVE PadZeros(_, _)
PadZeros(s, k) == IF Len(s) >= k THEN s ELSE PadZeros(s \o <<"0">>, k)

\* The product of a decimal and 10^decimals in exact arithmetic, truncated
\* toward zero.
ExactProduct(val, decimals) ==
    IF val.kind = "nan" \/ val.neg THEN 0
    ELSE DigitsValue(val.int, 0) * Pow10(decimals)
         + DigitsValue(SubSeq(PadZeros(val.frac, decimals), 1, decimals), 0)

(***************************************************************************)
(* f64 arithmetic: a double is m * 2^exp with m of at most 53 bits.  Wide  *)
(* integers are little-endian sequences of limbs of LIMB_BITS bits.        *)
(***************************************************************************)
F64_MANTISSA_BITS == 53
LIMB_BITS == 15
\* The limbs of a wide integer, and the limbs a decimal is shifted left by
\* before it is divided by its power of ten.
F64_WORK_LIMBS == 10
F64_SHIFT_LIMBS == 7

BigBase == 2^LIMB_BITS

BigOfInt(n) ==
    [i \in 1..F64_WORK_LIMBS |->
        CASE i = 1 -> n % BigBase
          [] i = 2 -> (n \div BigBase) % BigBase
          [] i = 3 -> (n \div BigBase) \div BigBase
          [] OTHER -> 0]

RECURSIVE BigValue(_, _)
BigValue(a, i) == IF i > Len(a) THEN 0 ELSE a[i] + BigBase * BigValue(a, i + 1)

LimbAt(a, i) == IF i \in 1..Len(a) THEN a[i] ELSE 0

\* A faulty scaling, for comparison: the product in exact decimal
\* arithmetic, truncated toward zero.
ScaleExactly(val, decimals) == BigOfInt(ExactProduct(val, decimals))

BigBit(a, j) == (LimbAt(a, (j \div LIMB_BITS) + 1) \div 2^(j % LIMB_BITS)) % 2

\* The number of bits of a, 0 for zero.
BigBitLen(a) ==
    IF \A i \in 1..Len(a) : a[i] = 0 THEN 0
    ELSE LET top == CHOOSE i \in 1..Len(a) :
                        a[i] # 0 /\ \A k \in (i + 1)..Len(a) : a[k] = 0
         IN  LIMB_BITS * (top - 1)
             + (CHOOSE b \in 1..LIMB_BITS : 2^(b - 1) <= a[top] /\ a[top] < 2^b)

BigShiftLeftLimbs(a, n) == [i \in 1..Len(a) |-> IF i <= n THEN 0 ELSE a[i - n]]

BigShiftLeft(a, n) ==
    [i \in 1..Len(a) |->
        ((LimbAt(a, i - (n \div LIMB_BITS)) * 2^(n % LIMB_BITS)) % BigBase)
        + (LimbAt(a, i - (n \div LIMB_BITS) - 1)
           \div 2^(LIMB_BITS - (n % LIMB_BITS)))]

BigShiftRight(a, n) ==
    [i \in 1..Len(a) |->
        (LimbAt(a, i + (n \div LIMB_BITS)) \div 2^(n % LIMB_BITS))
        + (LimbAt(a, i + (n \div LIMB_BITS) + 1) % 2^(n % LIMB_BITS))
          * 2^(LIMB_BITS - (n % LIMB_BITS))]

\* Whether the n lowest bits of a are all zero.
BigLowBitsZero(a, n) ==
    /\ \A i \in 1..Len(a) : i * LIMB_BITS <= n => a[i] = 0
    /\ LimbAt(a, (n \div LIMB_BITS) + 1) % 2^(n % LIMB_BITS) = 0

\* The limbs of a * c + carry from limb i on, for c and carry below BigBase.
RECURSIVE BigMulCarry(_, _, _, _)
BigMulCarry(a, c, i, carry) ==
    IF i > Len(a) THEN <<>>
    ELSE <<(a[i] * c + carry) % BigBase>>
         \o BigMulCarry(a, c, i + 1, (a[i] * c + carry) \div BigBase)

\* The remainder and then the limbs of the quotient of a by c, from limb i
\* down.
RECURSIVE BigDivRem(_, _, _, _)
BigDivRem(a, c, i, rem) ==
    IF i = 0 THEN <<rem>>
    ELSE BigDivRem(a, c, i - 1, (rem * BigBase + a[i]) % c)
         \o <<(rem * BigBase + a[i]) \div c>>

RECURSIVE BigMulTens(_, _)
BigMulTens(a, k) ==
    IF k = 0 THEN a ELSE BigMulTens(BigMulCarry(a, 10, 1, 0), k - 1)

RECURSIVE BigDivTens(_, _)
BigDivTens(a, k) ==
    IF k = 0 THEN a ELSE BigDivTens(Tail(BigDivRem(a, 10, Len(a), 0)), k - 1)

\* Round to nearest, ties to even: the wide integer a (with `inexact` when
\* a nonzero fraction was already dropped from it) as m * 2^exp.
F64Round(a, inexact) ==
    LET drop   == IF BigBitLen(a) > F64_MANTISSA_BITS
                  THEN BigBitLen(a) - F64_MANTISSA_BITS ELSE 0
        m      == BigShiftRight(a, drop)
        guard  == drop >= 1 /\ BigBit(a, drop - 1) = 1
        sticky == inexact \/ (drop >= 2 /\ ~BigLowBitsZero(a, drop - 1))
        up     == guard /\ (sticky \/ m[1] % 2 = 1)
    IN  [m |-> IF up THEN BigMulCarry(m, 1, 1, 1) ELSE m, exp |-> drop]

\* The double that str::parse::<f64>() gives for a positive decimal: the
\* nearest to digits / 10^k, or to digits * 10^(-k) when k is negative.
F64OfDecimal(digits, k) ==
    IF k < 0 THEN F64Round(BigMulTens(BigOfInt(digits), 0 - k), FALSE)
    ELSE LET shifted == BigShiftLeftLimbs(BigOfInt(digits), F64_SHIFT_LIMBS)
             nearest == F64Round(BigDivTens(shifted, k), digits % (5^k) # 0)
         IN  [m |-> nearest.m, exp |-> nearest.exp - F64_SHIFT_LIMBS * LIMB_BITS]

\* val * 1_000_000.0 or val * 1_000_000_000.0: the product, rounded.
F64TimesPow10(x, decimals) ==
    LET product == F64Round(BigMulTens(x.m, decimals), FALSE)
    IN  [m |-> product.m, exp |-> product.exp + x.exp]

\* u64::MAX, 2^64 - 1, as a wide integer.
U64_BITS == 64
U64_MAX ==
    [i \in 1..F64_WORK_LIMBS |->
        IF i <= U64_BITS \div LIMB_BITS THEN BigBase - 1
        ELSE IF i = (U64_BITS \div LIMB_BITS) + 1
        THEN 2^(U64_BITS % LIMB_BITS) - 1
        ELSE 0]

\* A faulty cast, for comparison: truncation toward zero that keeps the low
\* 64 bits of a value too large for a u64.
F64AsU64Wrapping(x) ==
    IF x.exp >= 0
    THEN [i \in 1..F64_WORK_LIMBS |->
             IF i <= U64_BITS \div LIMB_BITS
             THEN BigShiftLeft(x.m, x.exp)[i]
             ELSE IF i = (U64_BITS \div LIMB_BITS) + 1
             THEN BigShiftLeft(x.m, x.exp)[i] % 2^(U64_BITS % LIMB_BITS)
             ELSE 0]
    ELSE BigShiftRight(x.m, 0 - x.exp)

\* (x) as u64 for a finite double that is not negative: truncation toward
\* zero, and u64::MAX for a value of more than 64 bits.
F64AsU64(x) ==
    IF x.exp >= 0
    THEN IF BigBitLen(x.m) + x.exp > U64_BITS THEN U64_MAX
         ELSE BigShiftLeft(x.m, x.exp)
    ELSE BigShiftRight(x.m, 0 - x.exp)

\* (val * 10^decimals) as u64, as a wide integer: the double nearest to the
\* text, multiplied in double arithmetic, truncated toward zero; the cast
\* saturates, so a negative value and NaN give 0 and a value above the u64
\* range, infinity included, gives u64::MAX.
ScaleToU64(val, decimals) ==
    IF val.kind = "nan" \/ val.neg THEN BigOfInt(0)
    ELSE IF val.kind = "inf" THEN U64_MAX
    ELSE IF DigitsValue(val.int \o val.frac, 0) = 0 THEN BigOfInt(0)
    ELSE CHOOSE amount \in
             { F64AsU64(x) :
                 x \in {F64TimesPow10(
                           F64OfDecimal(DigitsValue(val.int \o val.frac, 0),
                                        Len(val.frac) - val.exp),
                           decimals)} } : TRUE

\* Display of a u64 held as a wide integer: its decimal digits.
RECURSIVE FormatWideU64(_)
FormatWideU64(a) ==
    CHOOSE text \in
        { IF BigBitLen(Tail(qr)) = 0 THEN <<Digits[qr[1] + 1]>>
          ELSE FormatWideU64(Tail(qr)) \o <<Digits[qr[1] + 1]>> :
            qr \in {BigDivRem(a, 10, Len(a), 0)} } : TRUE

(***************************************************************************)
(* Public keys                                                             *)
(***************************************************************************)
\* The bitcoin base58 alphabet of the bs58 crate.
Base58Alphabet ==
    <<"1","2","3","4","5","6","7","8","9","A","B","C","D","E","F","G","H",
      "J","K","L","M","N","P","Q","R","S","T","U","V","W","X","Y","Z","a",
      "b","c","d","e","f","g","h","i","j","k","m","n","o","p","q","r","s",
      "t","u","v","w","x","y","z">>

PUBKEY_BYTES == 32
MAX_BASE58_LEN == 44

\* The bytes a base58 text of at most MAX_BASE58_LEN characters can fill.
BASE58_WORK_BYTES == 33

\* One round of carrying on little-endian column sums: every column keeps
\* its low byte and takes what the column below it carries out.
CarryPass(c) ==
    SubSeq([k \in 1..Len(c) |->
               (c[k] % 256) + (IF k = 1 THEN 0 ELSE c[k - 1] \div 256)], 1, Len(c))

\* The last round, on columns that are at most 256: a column takes a carry
\* when a column below it overflows and every column between is 255.
CarryRipple(c) ==
    SubSeq([k \in 1..Len(c) |->
               (c[k] + (IF \E j \in 1..(k - 1) :
                              /\ c[j] >= 256
                              /\ \A m \in (j + 1)..(k - 1) : c[m] = 255
                        THEN 1 ELSE 0)) % 256], 1, Len(c))

\* n * mul + add on a little-endian number of fixed width, mul <= 58^3.
MulAdd(le, mul, add) ==
    CarryRipple(CarryPass(CarryPass(CarryPass(CarryPass(
        SubSeq([k \in 1..Len(le) |-> le[k] * mul + (IF k = 1 THEN add ELSE 0)],
               1, Len(le)))))))

Base58Digit(c) == IndexOf(Base58Alphabet, c) - 1

\* Three characters of a base58 text, from character i on, taken into the
\* little-endian number acc: each character is one step n * 58 + digit.
Base58Step(s, i, acc) ==
    IF i + 2 <= Len(s)
    THEN MulAdd(acc, 58 * 58 * 58,
                (Base58Digit(s[i]) * 58 + Base58Digit(s[i + 1])) * 58
                + Base58Digit(s[i + 2]))
    ELSE IF i + 1 <= Len(s)
    THEN MulAdd(acc, 58 * 58, Base58Digit(s[i]) * 58 + Base58Digit(s[i + 1]))
    ELSE MulAdd(acc, 58, Base58Digit(s[i]))

RECURSIVE Base58Fold(_, _, _)
Base58Fold(s, i, acc) ==
    IF i > Len(s) \/ Len(acc) = 0 THEN acc
    ELSE Base58Fold(s, i + 3, Base58Step(s, i, acc))

\* The number a base58 text denotes, little-endian.
Base58Number(s) == Base58Fold(s, 1, [j \in 1..BASE58_WORK_BYTES |-> 0])

\* The number of leading "1" characters of s.
LeadingOnes(s) ==
    Cardinality({i \in 1..Len(s) : \A j \in 1..i : s[j] = "1"})

\* The number of bytes of a little-endian number without its high zeros.
Significant(le) ==
    Cardinality({i \in 1..Len(le) : \E j \in i..Len(le) : le[j] # 0})

Reverse(s) == [i \in 1..Len(s) |-> s[Len(s) + 1 - i]]

\* bs58 decode: every leading "1" is a zero byte, the rest is a number.
Base58Decode(s) ==
    IF \E i \in 1..Len(s) : IndexOf(Base58Alphabet, s[i]) = 0
    THEN Err("Invalid")
    ELSE LET le == Base58Number(s)
         IN  Ok([i \in 1..LeadingOnes(s) |-> 0]
                \o Reverse(SubSeq(le, 1, Significant(le))))

\* A key is either 32 bytes or an address derived from seeds.
Key(bytes) == [bytes |-> bytes, seeds |-> <<>>]

\* utils::string_to_pub_key, Pubkey::from_str.
string_to_pub_key(account) ==
    IF Len(account) > MAX_BASE58_LEN THEN Err("WrongSize")
    ELSE LET d == Base58Decode(account)
         IN  IF ~d.ok THEN Err("Invalid")
             ELSE IF Len(d.val) # PUBKEY_BYTES THEN Err("WrongSize")
             ELSE Ok(Key(d.val))

USDC_MINT ==
    <<"E","P","j","F","W","d","d","5","A","u","f","q","S","S","q","e","M",
      "2","q","N","1","x","z","y","b","a","p","C","8","G","4","w","E","G",
      "G","k","Z","w","y","T","D","t","1","v">>
USDT_MINT ==
    <<"E","s","9","v","M","F","r","z","a","C","E","R","m","J","f","r","F",
      "4","H","2","F","Y","D","4","K","C","o","N","k","Y","1","1","M","c",
      "C","e","8","B","e","n","E","q","w">>

\* get_associated_token_address: the address derived from the owner, the
\* token program and the mint under the associated-token-account program.
get_associated_token_address(owner, mint) ==
    [bytes |-> <<>>, seeds |-> <<owner.bytes, "spl_token", mint.bytes>>]

(***************************************************************************)
(* Instructions, messages and transactions (solana_sdk, spl_token,         *)
(* spl_memo), by their content                                             *)
(***************************************************************************)
AccountMeta(pubkey, is_signer, is_writable) ==
    [pubkey |-> pubkey, is_signer |-> is_signer, is_writable |-> is_writable]

Instruction(program_id, accounts, tag, num, text) ==
    [program_id |-> program_id, accounts |-> accounts,
     data |-> [tag |-> tag, num |-> num, text |-> text]]

set_compute_unit_limit(units) ==
    Instruction("ComputeBudget", <<>>, "SetComputeUnitLimit", units, <<>>)

set_compute_unit_price(micro_lamports) ==
    Instruction("ComputeBudget", <<>>, "SetComputeUnitPrice", micro_lamports, <<>>)

\* system_instruction::transfer(from, to, lamports).
system_transfer(from_pubkey, to_pubkey, lamports) ==
    Instruction("System",
                <<AccountMeta(from_pubkey, TRUE, TRUE),
                  AccountMeta(to_pubkey, FALSE, TRUE)>>,
                "Transfer", lamports, <<>>)

SignerMetas(signers) == [i \in 1..Len(signers) |-> AccountMeta(signers[i], TRUE, FALSE)]

\* spl_token::instruction::transfer: the authority signs itself unless
\* multisig signers are listed.  Fails for a program id that is not spl_token.
token_transfer(token_program, source, destination, authority, signers, amount) ==
    IF token_program # "Token" THEN Err("IncorrectProgramId")
    ELSE Ok(Instruction("Token",
                        <<AccountMeta(source, FALSE, TRUE),
                          AccountMeta(destination, FALSE, TRUE),
                          AccountMeta(authority, signers = <<>>, FALSE)>>
                        \o SignerMetas(signers),
                        "Transfer", amount, <<>>))

\* spl_memo::build_memo(memo, signer_pubkeys): the data is the memo's text.
memo_instruction_of(memo, signer_pubkeys) ==
    Instruction("Memo", SignerMetas(signer_pubkeys), "Memo", 0, memo)

\* Message::new_with_blockhash(instructions, Some(payer), blockhash): the
\* instructions keep their order and the payer is the first account key.
new_with_blockhash(instructions, payer, blockhash) ==
    [fee_payer |-> payer, recent_blockhash |-> blockhash, instructions |-> instructions]

\* The keys that must sign a message: the payer and every signer account.
SignerMetasOf(ix) ==
    {ix.accounts[j].pubkey : j \in {k \in 1..Len(ix.accounts) : ix.accounts[k].is_signer}}

SignerKeys(message) ==
    {message.fee_payer} \cup
    UNION {SignerMetasOf(message.instructions[i]) : i \in 1..Len(message.instructions)}

DefaultSignature == "unsigned"

\* A faulty construction, for comparison: the payer's slot already signed.
new_signed_by_payer(message) ==
    [signatures |-> [k \in SignerKeys(message) |->
                        IF k = message.fee_payer THEN "signed" ELSE "unsigned"],
     message |-> message]

\* Transaction::new_unsigned(message): one default signature per signer.
new_unsigned(message) ==
    [signatures |-> [k \in SignerKeys(message) |-> DefaultSignature],
     message |-> message]

\* bincode::serialize of a transaction, then base64 for transport: the text
\* stands for the transaction it encodes.
bincode_serialize(transaction) == Ok([bincode |-> transaction])
base64_encode(bytes) == [base64 |-> bytes]

(***************************************************************************)
(* Responses                                                               *)
(***************************************************************************)
\* Json(json!({"success": true, ...})): HTTP 200 with a JSON body.
JsonOk(data) ==
    [kind |-> "json", http |-> 200, success |-> TRUE, error |-> <<>>, data |-> data]
\* Json(json!({"success": false, "error": msg})).
JsonErr(msg) ==
    [kind |-> "json", http |-> 200, success |-> FALSE, error |-> msg, data |-> <<>>]
\* The handler panicked: the task is dropped and no payload is written.
Panicked ==
    [kind |-> "panic", http |-> 0, success |-> FALSE, error |-> <<>>, data |-> <<>>]
\* The router's own answer for a path or method it has no handler for.
Fallback(status) ==
    [kind |-> "fallback", http |-> status, success |-> FALSE, error |-> <<>>, data |-> <<>>]
NoResponse ==
    [kind |-> "none", http |-> 0, success |-> FALSE, error |-> <<>>, data |-> <<>>]

(***************************************************************************)
(* build_memo                                                              *)
(***************************************************************************)
build_memo(token_type, from, to, amount, yid, notes) ==
    IF notes.some /\ ByteLen(notes.val) > 16
    THEN Err(<<"Notes must be 16 characters or less, got ">>
             \o FormatU64(ByteLen(notes.val)))
    ELSE LET notes_part == IF notes.some THEN notes.val ELSE <<>>
         IN  Ok(Concat(<< <<"f","u","e","g","o","|">>, token_type,
                          <<"|","f",":">>, from,
                          <<"|","t",":">>, to,
                          <<"|","a",":">>, FormatWideU64(amount),
                          <<"|","y","i","d",":">>, yid,
                          <<"|","n",":">>, notes_part >>))

(***************************************************************************)
(* The transfer builders.  `fetched` is what rpc.get_latest_blockhash()    *)
(* returned for this request.                                              *)
(***************************************************************************)
\* payload.fee_amount.as_ref().and_then(|f| f.parse::<u64>().ok()).unwrap_or(0)
fee_amount_or_zero(fee_amount) ==
    IF fee_amount.some /\ ParseU64(fee_amount.val).ok
    THEN ParseU64(fee_amount.val).val
    ELSE 0

\* The "data" object of a successful build.
BuildData(payload, transaction_b64, blockhash, memo_text) ==
    [transaction |-> transaction_b64, blockhash |-> blockhash,
     from |-> payload.from_address, to |-> payload.to_address,
     amount |-> payload.amount, yid |-> payload.yid,
     memo |-> memo_text, network |-> payload.network]

\* A faulty assembly, for comparison: the memo ahead of the transfer.
memo_before_transfer(compute_limit, unit_price, transfer_instruction, memo_instruction) ==
    <<compute_limit, unit_price, memo_instruction, transfer_instruction>>

usdc_instructions(compute_limit, unit_price, transfer_instruction, memo_instruction) ==
    <<compute_limit, unit_price, transfer_instruction, memo_instruction>>

\* build_transfer_usdc from the scaled amount and the result of build_memo
\* on.  The builders hand both over as values, as the code computes each
\* once.
usdc_response(payload, fetched, amount, memo_text) ==
    LET from_pubkey == string_to_pub_key(payload.from_address)
        to_pubkey   == string_to_pub_key(payload.to_address)
        usdc_mint   == string_to_pub_key(USDC_MINT)
        source_token_account ==
            get_associated_token_address(from_pubkey.val, usdc_mint.val)
        destination_token_account ==
            get_associated_token_address(to_pubkey.val, usdc_mint.val)
        parsed      == ParseF64(payload.amount)
        transfer_instruction ==
            token_transfer("Token", source_token_account,
                           destination_token_account, from_pubkey.val,
                           <<from_pubkey.val>>, amount)
        memo_instruction == memo_instruction_of(memo_text.val, <<>>)
        compute_limit == set_compute_unit_limit(100000)
        unit_price  == set_compute_unit_price(fee_amount_or_zero(payload.fee_amount))
        message     == new_with_blockhash(
                           usdc_instructions(compute_limit, unit_price,
                                             transfer_instruction.val,
                                             memo_instruction),
                           from_pubkey.val, fetched.val)
        transaction == new_unsigned(message)
        serialized_tx == bincode_serialize(transaction)
    IN  IF ~fetched.ok
        THEN JsonErr(<<"Failed to fetch blockhash: ">> \o fetched.err)
        ELSE IF ~from_pubkey.ok THEN JsonErr(<<"Invalid from_address">>)
        ELSE IF ~to_pubkey.ok THEN JsonErr(<<"Invalid to_address">>)
        ELSE IF ~usdc_mint.ok THEN JsonErr(<<"Invalid USDC mint">>)
        ELSE IF ~parsed.ok THEN JsonErr(<<"Invalid amount">>)
        ELSE IF ~memo_text.ok THEN JsonErr(memo_text.err)
        ELSE IF ~transfer_instruction.ok
        THEN JsonErr(<<"Failed to create transfer instruction">>)
        ELSE IF ~serialized_tx.ok THEN JsonErr(<<"Failed to serialize transaction">>)
        ELSE JsonOk(BuildData(payload, base64_encode(serialized_tx.val),
                              fetched.val, memo_text.val))

build_transfer_usdc(payload, fetched) ==
    LET parsed == ParseF64(payload.amount)
    IN  CHOOSE response \in
            UNION { { usdc_response(payload, fetched, amount, memo_text) :
                        memo_text \in
                            {build_memo(<<"U","S","D","C">>, payload.from_address,
                                        payload.to_address, amount, payload.yid,
                                        payload.notes)} } :
                      amount \in {IF parsed.ok THEN ScaleToU64(parsed.val, 6)
                                  ELSE BigOfInt(0)} } : TRUE

sol_instructions(compute_limit, unit_price, transfer_instruction, memo_instruction) ==
    <<compute_limit, unit_price, transfer_instruction, memo_instruction>>

sol_response(payload, fetched, amount_lamports, memo_text) ==
    LET from_pubkey == string_to_pub_key(payload.from_address)
        to_pubkey   == string_to_pub_key(payload.to_address)
        parsed      == ParseF64(payload.amount)
        transfer_instruction ==
            system_transfer(from_pubkey.val, to_pubkey.val, amount_lamports)
        memo_instruction == memo_instruction_of(memo_text.val, <<>>)
        compute_limit == set_compute_unit_limit(100000)
        unit_price  == set_compute_unit_price(fee_amount_or_zero(payload.fee_amount))
        message     == new_with_blockhash(
                           sol_instructions(compute_limit, unit_price,
                                            transfer_instruction,
                                            memo_instruction),
                           from_pubkey.val, fetched.val)
        transaction == new_unsigned(message)
        serialized_tx == bincode_serialize(transaction)
    IN  IF ~fetched.ok
        THEN JsonErr(<<"Failed to fetch blockhash: ">> \o fetched.err)
        ELSE IF ~from_pubkey.ok THEN JsonErr(<<"Invalid from_address">>)
        ELSE IF ~to_pubkey.ok THEN JsonErr(<<"Invalid to_address">>)
        ELSE IF ~parsed.ok THEN JsonErr(<<"Invalid amount">>)
        ELSE IF ~memo_text.ok THEN JsonErr(memo_text.err)
        ELSE IF ~serialized_tx.ok THEN JsonErr(<<"Failed to serialize transaction">>)
        ELSE JsonOk(BuildData(payload, base64_encode(serialized_tx.val),
                              fetched.val, memo_text.val))

build_transfer_sol(payload, fetched) ==
    LET parsed == ParseF64(payload.amount)
    IN  CHOOSE response \in
            UNION { { sol_response(payload, fetched, amount_lamports, memo_text) :
                        memo_text \in
                            {build_memo(<<"S","O","L">>, payload.from_address,
                                        payload.to_address, amount_lamports,
                                        payload.yid, payload.notes)} } :
                      amount_lamports \in
                          {IF parsed.ok THEN ScaleToU64(parsed.val, 9)
                           ELSE BigOfInt(0)} } : TRUE

usdt_instructions(compute_limit, unit_price, transfer_instruction, memo_instruction) ==
    <<compute_limit, unit_price, transfer_instruction, memo_instruction>>

usdt_response(payload, fetched, amount, built) ==
    LET from_pubkey == string_to_pub_key(payload.from_address)
        to_pubkey   == string_to_pub_key(payload.to_address)
        usdt_mint   == string_to_pub_key(USDT_MINT)
        from_ata    == get_associated_token_address(from_pubkey.val, usdt_mint.val)
        to_ata      == get_associated_token_address(to_pubkey.val, usdt_mint.val)
        amount_ui   == ParseF64(payload.amount)
        compute_limit == set_compute_unit_limit(300000)
        unit_price  == set_compute_unit_price(100)
        transfer_instruction ==
            token_transfer("Token", from_ata, to_ata, from_pubkey.val, <<>>, amount)
        \* .unwrap_or_default(): the empty string when build_memo fails
        memo_text   == IF built.ok THEN built.val ELSE <<>>
        memo_instruction == memo_instruction_of(memo_text, <<from_pubkey.val>>)
        message     == new_with_blockhash(
                           usdt_instructions(compute_limit, unit_price,
                                             transfer_instruction.val,
                                             memo_instruction),
                           from_pubkey.val, fetched.val)
        transaction == new_unsigned(message)
        serialized_tx == bincode_serialize(transaction)
    IN  IF ~fetched.ok
        THEN JsonErr(<<"Failed to fetch blockhash: ">> \o fetched.err)
        ELSE IF ~from_pubkey.ok THEN JsonErr(<<"Invalid from_address">>)
        ELSE IF ~to_pubkey.ok THEN JsonErr(<<"Invalid to_address">>)
        ELSE IF ~usdt_mint.ok THEN JsonErr(<<"Invalid USDT mint">>)
        ELSE IF ~amount_ui.ok THEN JsonErr(<<"Invalid amount format">>)
        ELSE IF ~transfer_instruction.ok THEN Panicked
        ELSE IF ~serialized_tx.ok THEN JsonErr(<<"Failed to serialize transaction">>)
        ELSE JsonOk(BuildData(payload, base64_encode(serialized_tx.val),
                              fetched.val, memo_text))

build_transfer_usdt(payload, fetched) ==
    LET amount_ui == ParseF64(payload.amount)
    IN  CHOOSE response \in
            UNION { { usdt_response(payload, fetched, amount, built) :
                        built \in
                            {build_memo(<<"U","S","D","T">>, payload.from_address,
                                        payload.to_address, amount, payload.yid,
                                        payload.notes)} } :
                      amount \in {IF amount_ui.ok THEN ScaleToU64(amount_ui.val, 6)
                                  ELSE BigOfInt(0)} } : TRUE

(***************************************************************************)
(* Wire formats: base64 and the bincode layout of a signed transaction     *)
(***************************************************************************)
Base64Alphabet ==
    <<"A","B","C","D","E","F","G","H","I","J","K","L","M","N","O","P","Q",
      "R","S","T","U","V","W","X","Y","Z","a","b","c","d","e","f","g","h",
      "i","j","k","l","m","n","o","p","q","r","s","t","u","v","w","x","y",
      "z","0","1","2","3","4","5","6","7","8","9","+","/">>

Base64Val(c) == IndexOf(Base64Alphabet, c) - 1

\* general_purpose::STANDARD.decode: groups of four characters, canonical
\* padding, no stray bits in the last symbol.
base64_decode(s) ==
    LET n    == Len(s)
        pad  == IF n >= 2 /\ s[n] = "=" /\ s[n - 1] = "=" THEN 2
                ELSE IF n >= 1 /\ s[n] = "=" THEN 1 ELSE 0
        v(i) == Base64Val(s[i])
        byte(k) ==
            LET g == 4 * ((k - 1) \div 3)
                r == (k - 1) % 3
            IN  CASE r = 0 -> v(g + 1) * 4 + v(g + 2) \div 16
                  [] r = 1 -> (v(g + 2) % 16) * 16 + v(g + 3) \div 4
                  [] r = 2 -> (v(g + 3) % 4) * 64 + v(g + 4)
    IN  IF n % 4 # 0 THEN Err("InvalidLength")
        ELSE IF \E i \in 1..(n - pad) : IndexOf(Base64Alphabet, s[i]) = 0
        THEN Err("InvalidByte")
        ELSE IF \/ pad = 1 /\ v(n - 1) % 4 # 0
                \/ pad = 2 /\ v(n - 2) % 16 # 0
        THEN Err("InvalidLastSymbol")
        ELSE Ok(SubSeq([k \in 1..(3 * (n \div 4) - pad) |-> byte(k)],
                       1, 3 * (n \div 4) - pad))

SIGNATURE_BYTES == 64
HASH_BYTES == 32

\* short_vec: a length of up to three bytes, seven bits each, low bits
\* first; a zero byte after the first and a fourth byte are rejected.
ReadShortU16(b, p) ==
    IF p > Len(b) THEN [ok |-> FALSE, val |-> 0, next |-> p]
    ELSE IF b[p] < 128 THEN [ok |-> TRUE, val |-> b[p], next |-> p + 1]
    ELSE IF p + 1 > Len(b) \/ b[p + 1] = 0 THEN [ok |-> FALSE, val |-> 0, next |-> p]
    ELSE IF b[p + 1] < 128
    THEN [ok |-> TRUE, val |-> (b[p] - 128) + 128 * b[p + 1], next |-> p + 2]
    ELSE IF p + 2 > Len(b) \/ b[p + 2] = 0 \/ b[p + 2] >= 128
    THEN [ok |-> FALSE, val |-> 0, next |-> p]
    ELSE LET val == (b[p] - 128) + 128 * (b[p + 1] - 128) + 16384 * b[p + 2]
         IN  [ok |-> val <= 65535, val |-> val, next |-> p + 3]

\* One CompiledInstruction read at p: program_id_index, accounts, data.
ReadInstruction(b, p) ==
    LET naccounts == ReadShortU16(b, p + 1)
        ndata     == ReadShortU16(b, naccounts.next + naccounts.val)
        end       == ndata.next + ndata.val
    IN  IF p > Len(b) \/ ~naccounts.ok
           \/ naccounts.next + naccounts.val - 1 > Len(b)
           \/ ~ndata.ok \/ end - 1 > Len(b)
        THEN [ok |-> FALSE, next |-> p, val |-> <<>>]
        ELSE [ok |-> TRUE, next |-> end,
              val |-> [program_id_index |-> b[p],
                       accounts |-> SubSeq(b, naccounts.next,
                                           naccounts.next + naccounts.val - 1),
                       data |-> SubSeq(b, ndata.next, end - 1)]]

\* bincode::deserialize::<Transaction>: the signatures, then the legacy
\* message: a three-byte header, the account keys, the blockhash and the
\* instructions.  Bytes left over after the last field are ignored.
bincode_deserialize(b) ==
    LET nsig    == ReadShortU16(b, 1)
        header  == nsig.next + SIGNATURE_BYTES * nsig.val
        nkeys   == ReadShortU16(b, header + 3)
        hash    == nkeys.next + PUBKEY_BYTES * nkeys.val
        nix     == ReadShortU16(b, hash + HASH_BYTES)
        ix[i \in 0..nix.val] ==
            IF i = 0 THEN [ok |-> TRUE, next |-> nix.next, val |-> <<>>]
            ELSE IF ~ix[i - 1].ok THEN ix[i - 1]
            ELSE LET one == ReadInstruction(b, ix[i - 1].next)
                 IN  [ok |-> one.ok, next |-> one.next,
                      val |-> IF one.ok THEN Append(ix[i - 1].val, one.val) ELSE <<>>]
    IN  IF ~nsig.ok \/ header + 2 > Len(b) THEN Err("io error")
        ELSE IF ~nkeys.ok \/ hash + HASH_BYTES - 1 > Len(b) THEN Err("io error")
        ELSE IF ~nix.ok \/ nix.next - 1 + 3 * nix.val > Len(b) THEN Err("io error")
        ELSE IF ~ix[nix.val].ok THEN Err("io error")
        ELSE Ok([signatures |->
                    [i \in 1..nsig.val |->
                        SubSeq(b, nsig.next + SIGNATURE_BYTES * (i - 1),
                               nsig.next + SIGNATURE_BYTES * i - 1)],
                 message |->
                    [header |-> SubSeq(b, header, header + 2),
                     account_keys |->
                        [i \in 1..nkeys.val |->
                            SubSeq(b, nkeys.next + PUBKEY_BYTES * (i - 1),
                                   nkeys.next + PUBKEY_BYTES * i - 1)],
                     recent_blockhash |-> SubSeq(b, hash, hash + HASH_BYTES - 1),
                     instructions |-> ix[nix.val].val]])

(***************************************************************************)
(* x402_request: the conditional-payment flow                              *)
(***************************************************************************)
AsciiLower ==
    <<"a","b","c","d","e","f","g","h","i","j","k","l","m","n","o","p","q",
      "r","s","t","u","v","w","x","y","z">>
AsciiUpper ==
    <<"A","B","C","D","E","F","G","H","I","J","K","L","M","N","O","P","Q",
      "R","S","T","U","V","W","X","Y","Z">>

\* str::to_uppercase on ASCII text.
to_uppercase(s) ==
    [i \in 1..Len(s) |->
        IF IndexOf(AsciiLower, s[i]) = 0 THEN s[i]
        ELSE AsciiUpper[IndexOf(AsciiLower, s[i])]]

SupportedMethods ==
    {<<"G","E","T">>, <<"P","O","S","T">>, <<"P","U","T">>,
     <<"D","E","L","E","T","E">>, <<"P","A","T","C","H">>}

\* The outbound request x402_request prepares: the caller's method, URL,
\* headers and body, with the extra headers after the caller's.
request_builder(payload, extra_headers) ==
    IF to_uppercase(payload.method) \notin SupportedMethods
    THEN Err(<<"Unsupported HTTP method">>)
    ELSE Ok([method |-> to_uppercase(payload.method), url |-> payload.url,
             headers |-> payload.headers \o extra_headers, body |-> payload.body])

\* A faulty status test, for comparison: every client error asks for payment.
is_client_error(status) == status >= 400

PAYMENT_REQUIRED == 402
is_payment_required(status) == status = PAYMENT_REQUIRED

\* A step of the flow either returns a response or goes on with a value.
Return(response) == [done |-> TRUE, resp |-> response, val |-> <<>>]
Continue(val) == [done |-> FALSE, resp |-> NoResponse, val |-> val]

\* Json(json!({"success": false, "error": msg, ...})): an error payload with
\* further fields.
JsonErrWith(msg, data) ==
    [kind |-> "json", http |-> 200, success |-> FALSE, error |-> msg, data |-> data]

\* What x402_request does with the first response once its body is read.
x402_initial(initial_response) ==
    IF ~is_payment_required(initial_response.status)
    THEN IF ~initial_response.text.ok
         THEN Return(JsonErr(<<"Failed to read response: ">>
                             \o initial_response.text.err))
         ELSE Return(JsonOk([status |-> initial_response.status,
                             response |-> initial_response.text.val,
                             payment_required |-> FALSE]))
    ELSE IF ~initial_response.text.ok
    THEN Return(JsonErr(<<"Failed to read 402 response: ">>
                        \o initial_response.text.err))
    ELSE Continue(initial_response.text.val)

\* serde_json::from_str::<X402Response>: a body stands for the document it
\* is the JSON text of, if it is one.
parse_x402_response(body) ==
    IF body.x402.some THEN Ok(body.x402.val) ELSE Err(<<"expected value">>)

SolanaNetworks == {"solana", "solana-mainnet-beta"}

\* A faulty selection, for comparison: the first entry, whatever its network.
find_first_req(accepts) ==
    IF accepts = <<>> THEN None ELSE Some(accepts[1])

\* A faulty selection, for comparison: the last entry with a Solana network.
find_last_solana_req(accepts) ==
    IF \E i \in 1..Len(accepts) : accepts[i].network \in SolanaNetworks
    THEN Some(accepts[CHOOSE i \in 1..Len(accepts) :
                        /\ accepts[i].network \in SolanaNetworks
                        /\ \A j \in (i + 1)..Len(accepts) :
                              accepts[j].network \notin SolanaNetworks])
    ELSE None

\* accepts.iter().find(|req| ...): the first entry with a Solana network.
find_solana_req(accepts) ==
    IF \E i \in 1..Len(accepts) : accepts[i].network \in SolanaNetworks
    THEN Some(accepts[CHOOSE i \in 1..Len(accepts) :
                        /\ accepts[i].network \in SolanaNetworks
                        /\ \A j \in 1..(i - 1) : accepts[j].network \notin SolanaNetworks])
    ELSE None

\* Steps 2 and 3: parse the payment requirements and select the Solana one.
x402_requirements(x402_response_text) ==
    LET x402_response == parse_x402_response(x402_response_text)
        solana_req    == find_solana_req(x402_response.val.accepts)
    IN  IF ~x402_response.ok
        THEN Return(JsonErrWith(<<"Failed to parse x402 response: ">>
                                \o x402_response.err,
                                [response_text |-> x402_response_text.raw]))
        ELSE IF ~solana_req.some
        THEN Return(JsonErrWith(
                 <<"This API doesn't support Solana payments. Fuego only supports Solana x402 payments.">>,
                 [supported_networks |->
                     [i \in 1..Len(x402_response.val.accepts) |->
                         x402_response.val.accepts[i].network]]))
        ELSE Continue(solana_req.val)

\* ~/.fuego/wallet.json
WalletPath == <<"~", ".fuego", "wallet.json">>

\* serde_json::from_str::<WalletStore>.
parse_wallet(content) ==
    IF content.wallet.some THEN Ok(content.wallet.val) ELSE Err(<<"expected value">>)

\* A faulty wallet step, for comparison: an unparsable file is reported as
\* a missing one.
x402_wallet_one_error(wallet_content) ==
    IF ~wallet_content.ok \/ ~parse_wallet(wallet_content.val).ok
    THEN Return(JsonErr(<<"No wallet found. Initialize with: node src/cli/init.ts">>))
    ELSE Continue(parse_wallet(wallet_content.val).val)

\* Step 4: the wallet file, read and parsed.
x402_wallet(wallet_content) ==
    IF ~wallet_content.ok
    THEN Return(JsonErr(<<"No wallet found. Initialize with: node src/cli/init.ts">>))
    ELSE IF ~parse_wallet(wallet_content.val).ok
    THEN Return(JsonErr(<<"Invalid wallet format">>))
    ELSE Continue(parse_wallet(wallet_content.val).val)

\* Hash::from_str: base58 text of exactly HASH_BYTES bytes.
hash_from_str(text) ==
    IF Len(text) > MAX_BASE58_LEN THEN Err("WrongSize")
    ELSE IF ~Base58Decode(text).ok THEN Err("Invalid")
    ELSE IF Len(Base58Decode(text).val) # HASH_BYTES THEN Err("WrongSize")
    ELSE Ok(Base58Decode(text).val)

\* spl_token::instruction::transfer_checked: as transfer, with the mint
\* among the accounts and the decimals in the data.
token_transfer_checked(token_program, source, mint, destination, authority, signers, amount, decimals) ==
    IF token_program # "Token" THEN Err("IncorrectProgramId")
    ELSE Ok(Instruction("Token",
                        <<AccountMeta(source, FALSE, TRUE),
                          AccountMeta(mint, FALSE, FALSE),
                          AccountMeta(destination, FALSE, TRUE),
                          AccountMeta(authority, signers = <<>>, FALSE)>>
                        \o SignerMetas(signers),
                        "TransferChecked", amount, <<decimals>>))

\* A faulty order, for comparison: the transfer ahead of the directives.
transfer_before_budget(compute_limit, unit_price, transfer_instruction) ==
    <<transfer_instruction, compute_limit, unit_price>>

x402_instructions(compute_limit, unit_price, transfer_instruction) ==
    <<compute_limit, unit_price, transfer_instruction>>

\* A faulty mint, for comparison: the asset the requirement names.
requirement_asset(solana_req) == solana_req.asset

\* The mint of the payment: string_to_pub_key(USDC_MINT), whatever the
\* requirement says.
payment_mint(solana_req) == USDC_MINT

\* Step 5: the payment transaction, built to the remote party's terms.
x402_build(solana_req, wallet_store) ==
    LET from_pubkey == string_to_pub_key(wallet_store.address)
        to_pubkey   == string_to_pub_key(solana_req.pay_to)
        fee_payer   == string_to_pub_key(solana_req.extra.fee_payer)
        usdc_mint   == string_to_pub_key(payment_mint(solana_req))
        blockhash   == hash_from_str(solana_req.extra.recent_blockhash)
        amount      == ParseU64(solana_req.max_amount_required)
        source_ata  == get_associated_token_address(from_pubkey.val, usdc_mint.val)
        dest_ata    == get_associated_token_address(to_pubkey.val, usdc_mint.val)
        transfer_instruction ==
            token_transfer_checked("Token", source_ata, usdc_mint.val, dest_ata,
                                   from_pubkey.val, <<from_pubkey.val>>,
                                   amount.val, solana_req.extra.decimals)
        compute_limit == set_compute_unit_limit(300000)
        unit_price  == set_compute_unit_price(5000)
        message     == new_with_blockhash(
                           x402_instructions(compute_limit, unit_price,
                                             transfer_instruction.val),
                           fee_payer.val, blockhash.val)
    IN  IF ~from_pubkey.ok THEN Return(JsonErr(<<"Invalid wallet address">>))
        ELSE IF ~to_pubkey.ok THEN Return(JsonErr(<<"Invalid recipient address">>))
        ELSE IF ~fee_payer.ok
        THEN Return(JsonErr(<<"Invalid fee payer address in Solana payment requirement">>))
        ELSE IF ~usdc_mint.ok THEN Return(JsonErr(<<"Invalid USDC mint">>))
        ELSE IF ~blockhash.ok
        THEN Return(JsonErr(<<"Invalid blockhash format in Solana payment requirement">>))
        ELSE IF ~amount.ok THEN Return(JsonErr(<<"Invalid payment amount">>))
        ELSE IF ~transfer_instruction.ok THEN Return(Panicked)
        ELSE Continue([transaction |-> new_unsigned(message),
                       blockhash |-> blockhash.val, amount |-> amount.val])

KEYPAIR_BYTES == 64
SECRET_KEY_BYTES == 32

\* Keypair::from_bytes: 64 bytes, the secret key and then the public key.
keypair_from_bytes(bytes) ==
    IF Len(bytes) # KEYPAIR_BYTES THEN Err("SignatureError")
    ELSE Ok([secret |-> SubSeq(bytes, 1, SECRET_KEY_BYTES),
             pubkey |-> Key(SubSeq(bytes, SECRET_KEY_BYTES + 1, KEYPAIR_BYTES))])

\* A faulty signature, for comparison: every slot is filled.
sign_every_slot(transaction, keypair, recent_blockhash) ==
    Ok([signatures |-> [k \in DOMAIN transaction.signatures |-> "signed"],
        message |-> transaction.message])

\* Transaction::try_partial_sign with one keypair: its slot is filled, the
\* other slots keep what they hold; a key that is no signer of the message
\* is refused.
try_partial_sign(transaction, keypair, recent_blockhash) ==
    IF keypair.pubkey \notin DOMAIN transaction.signatures
    THEN Err(<<"keypair-pubkey mismatch">>)
    ELSE Ok([signatures |->
                [k \in DOMAIN transaction.signatures |->
                    IF k = keypair.pubkey THEN "signed"
                    ELSE IF recent_blockhash = transaction.message.recent_blockhash
                    THEN transaction.signatures[k]
                    ELSE DefaultSignature],
             message |-> [transaction.message EXCEPT
                             !.recent_blockhash = recent_blockhash]])

\* The JSON of the payment payload, base64-encoded for the X-Payment header.
payment_payload(serialized_tx) ==
    [x402Version |-> 1, scheme |-> "exact", network |-> "solana-mainnet-beta",
     payload |-> [transaction |-> base64_encode(serialized_tx)]]

\* Steps 6 and 7, and the retry request of step 8.
x402_sign(payload, built, wallet_store) ==
    LET keypair       == keypair_from_bytes(wallet_store.private_key)
        signed        == try_partial_sign(built.transaction, keypair.val,
                                          built.blockhash)
        serialized_tx == bincode_serialize(signed.val)
        x_payment_header ==
            base64_encode([json |-> payment_payload(serialized_tx.val)])
        retry_builder ==
            request_builder(payload,
                            <<[name |-> <<"X-Payment">>, value |-> x_payment_header]>>)
    IN  \* .unwrap() on the keypair
        IF ~keypair.ok THEN Return(Panicked)
        ELSE IF ~signed.ok
        THEN Return(JsonErr(<<"Failed to sign transaction: ">> \o signed.err))
        ELSE IF ~serialized_tx.ok
        THEN Return(JsonErr(<<"Failed to serialize transaction: ">>))
        ELSE IF ~retry_builder.ok THEN Return(JsonErr(retry_builder.err))
        ELSE Continue(retry_builder.val)

\* A faulty echo, for comparison: recipient and fee payer are exchanged.
x402_final_exchanged(final_response, solana_req, amount) ==
    IF ~final_response.text.ok
    THEN JsonErr(<<"Failed to read final response: ">> \o final_response.text.err)
    ELSE JsonOk([status |-> final_response.status,
                 response |-> final_response.text.val,
                 payment_required |-> TRUE,
                 payment_details |->
                    [amount |-> amount,
                     amount_usdc |-> [units |-> amount \div 1000000,
                                      millionths |-> amount % 1000000],
                     recipient |-> solana_req.extra.fee_payer,
                     fee_payer |-> solana_req.pay_to]])

\* The response made of the retried request's answer.
x402_final(final_response, solana_req, amount) ==
    IF ~final_response.text.ok
    THEN JsonErr(<<"Failed to read final response: ">> \o final_response.text.err)
    ELSE JsonOk([status |-> final_response.status,
                 response |-> final_response.text.val,
                 payment_required |-> TRUE,
                 payment_details |->
                    [amount |-> amount,
                     amount_usdc |-> [units |-> amount \div 1000000,
                                      millionths |-> amount % 1000000],
                     recipient |-> solana_req.pay_to,
                     fee_payer |-> solana_req.extra.fee_payer]])

(***************************************************************************)
(* The router of main()                                                    *)
(***************************************************************************)
GetRoutes ==
    [p \in {"/", "/health", "/network", "/wallet-address"} |->
        CASE p = "/" -> "root"
          [] p = "/health" -> "health_check"
          [] p = "/network" -> "get_default_network"
          [] p = "/wallet-address" -> "get_wallet_address"]

PostRoutes ==
    [p \in {"/latest-hash", "/balance", "/usdc-balance", "/usdt-balance",
            "/transaction-history", "/all-transactions",
            "/build-transfer-usdc", "/build-transfer-sol",
            "/build-transfer-usdt", "/submit-transaction", "/x402-request"} |->
        CASE p = "/latest-hash" -> "get_latest_hash"
          [] p = "/balance" -> "get_balance"
          [] p = "/usdc-balance" -> "get_usdc_balance"
          [] p = "/usdt-balance" -> "get_usdt_balance"
          [] p = "/transaction-history" -> "get_fuego_transactions"
          [] p = "/all-transactions" -> "get_all_transactions"
          [] p = "/build-transfer-usdc" -> "build_transfer_usdc"
          [] p = "/build-transfer-sol" -> "build_transfer_sol"
          [] p = "/build-transfer-usdt" -> "build_transfer_usdt"
          [] p = "/submit-transaction" -> "submit_transaction"
          [] p = "/x402-request" -> "x402_request"]

\* The handler a request is routed to; axum answers 404 for a path with no
\* route and 405 for a routed path asked with another method.
Route(method, path) ==
    IF method = "GET" /\ path \in DOMAIN GetRoutes THEN GetRoutes[path]
    ELSE IF method = "POST" /\ path \in DOMAIN PostRoutes THEN PostRoutes[path]
    ELSE IF path \in DOMAIN GetRoutes \cup DOMAIN PostRoutes
    THEN "method_not_allowed"
    ELSE "not_found"

Builders == {"build_transfer_usdc", "build_transfer_sol", "build_transfer_usdt"}

\* format!("https://api.{}.solana.com", payload.network)
RpcUrl(network) == <<"https://api.", network, ".solana.com">>

(***************************************************************************)
(* Inputs                                                                  *)
(***************************************************************************)
ALICE ==
    <<"k","D","V","T","w","m","U","S","u","E","1","T","t","y","w","r","F",
      "n","m","j","o","J","L","a","Y","H","W","7","7","z","T","7","C","E",
      "u","o","p","w","p","T","N","7","M">>
BOB ==
    <<"E","W","y","h","h","y","K","p","r","a","U","s","E","T","Z","o","H",
      "p","6","Z","h","h","k","H","t","u","q","y","y","n","k","E","X","x",
      "N","G","B","u","j","G","9","w","w","Q">>
\* Base58 text of three bytes, and text outside the alphabet.
SHORT_ADDRESS == <<"b","a","d">>
NOT_BASE58 == <<"0","O","I","l">>

Networks == {"devnet"}
FromAddresses == {ALICE, SHORT_ADDRESS}
ToAddresses == {BOB, NOT_BASE58}
\* Amounts: plain decimals, text that is no number, a negative number,
\* not-a-number, and 10^20 and infinity, which no u64 holds.
Amounts ==
    {<<"1",".","5">>, <<"a","b","c">>, <<"-","2">>,
     <<"1",".","0","0","5">>,
     <<"0",".","0","0","0","0","0","0","0","0","1">>,
     <<"N","a","N">>, <<"1","e","2","0">>, <<"i","n","f">>}
Yids == {<<"o","r","d","e","r","-","1">>}
NOTE16 == <<"s","i","x","t","e","e","n","-","c","h","a","r","s","-","o","k">>
NOTE17 == NOTE16 \o <<"!">>
\* Sixteen characters, one of them two bytes wide.
NOTE16_WIDE == <<"c","a","f","é","-","s","i","x","t","e","e","n","-","c","h","r">>
NotesInputs == {None, Some(NOTE16), Some(NOTE17), Some(NOTE16_WIDE)}
FeeInputs == {None, Some(<<"7">>), Some(<<"x">>)}

BuildPayloads ==
    [network : Networks, from_address : FromAddresses, to_address : ToAddresses,
     amount : Amounts, yid : Yids, notes : NotesInputs, fee_amount : FeeInputs]

\* The requests a client sends: a method, a path and the JSON body.
BuildRequests ==
    [method : {"POST"},
     path : {"/build-transfer-usdc", "/build-transfer-sol", "/build-transfer-usdt"},
     body : BuildPayloads]

\* Signed transactions as a client serializes them.
EncodeShortU16(n) ==
    IF n < 128 THEN <<n>>
    ELSE IF n < 16384 THEN <<128 + (n % 128), n \div 128>>
    ELSE <<128 + (n % 128), 128 + ((n \div 128) % 128), n \div 16384>>

U32LE(n) == <<n % 256, (n \div 256) % 256, (n \div 65536) % 256, n \div 16777216>>
U64LE(n) == U32LE(n) \o <<0, 0, 0, 0>>

WireInstruction(ix) ==
    <<ix.program_id_index>> \o EncodeShortU16(Len(ix.accounts)) \o ix.accounts
    \o EncodeShortU16(Len(ix.data)) \o ix.data

\* The legacy layout; the versioned (v0) layout puts the marker byte 128
\* before the header and the address-table lookups after the instructions.
WireTransaction(tx, versioned) ==
    EncodeShortU16(Len(tx.signatures)) \o Concat(tx.signatures)
    \o (IF versioned THEN <<128>> ELSE <<>>)
    \o tx.message.header
    \o EncodeShortU16(Len(tx.message.account_keys)) \o Concat(tx.message.account_keys)
    \o tx.message.recent_blockhash
    \o EncodeShortU16(Len(tx.message.instructions))
    \o Concat([i \in 1..Len(tx.message.instructions) |->
                  WireInstruction(tx.message.instructions[i])])
    \o (IF versioned THEN EncodeShortU16(0) ELSE <<>>)

Base64Text(bytes) ==
    LET n == Len(bytes)
        at(i) == IF i <= n THEN bytes[i] ELSE 0
        char(j) ==
            LET g == 3 * ((j - 1) \div 4)
                r == (j - 1) % 4
            IN  CASE r = 0 -> Base64Alphabet[(at(g + 1) \div 4) + 1]
                  [] r = 1 -> Base64Alphabet[(at(g + 1) % 4) * 16 + (at(g + 2) \div 16) + 1]
                  [] r = 2 -> IF g + 2 > n THEN "="
                              ELSE Base64Alphabet[(at(g + 2) % 16) * 4 + (at(g + 3) \div 64) + 1]
                  [] r = 3 -> IF g + 3 > n THEN "="
                              ELSE Base64Alphabet[(at(g + 3) % 64) + 1]
    IN  SubSeq([j \in 1..(4 * ((n + 2) \div 3)) |-> char(j)], 1, 4 * ((n + 2) \div 3))

AliceKey == string_to_pub_key(ALICE).val.bytes
BobKey == string_to_pub_key(BOB).val.bytes
\* A recipient key whose last byte has its high bit set.
CarolKey == [i \in 1..PUBKEY_BYTES |-> IF i = PUBKEY_BYTES THEN 200 ELSE (5 * i) % 256]
SystemProgramKey == [i \in 1..PUBKEY_BYTES |-> 0]
ComputeBudgetKey ==
    Base58Decode(<<"C","o","m","p","u","t","e","B","u","d","g","e","t","1","1",
                   "1","1","1","1","1","1","1","1","1","1","1","1","1","1","1",
                   "1","1","1","1","1","1","1","1","1","1","1","1","1">>).val
SomeSignature == [i \in 1..SIGNATURE_BYTES |-> 7]
SomeBlockhash == [i \in 1..HASH_BYTES |-> 9]

WireSystemTransfer(program, lamports) ==
    [program_id_index |-> program, accounts |-> <<0, 1>>,
     data |-> U32LE(2) \o U64LE(lamports)]

\* A signed transfer from Alice to Bob.
TransferTx ==
    [signatures |-> <<SomeSignature>>,
     message |-> [header |-> <<1, 0, 1>>,
                  account_keys |-> <<AliceKey, BobKey, SystemProgramKey>>,
                  recent_blockhash |-> SomeBlockhash,
                  instructions |-> <<WireSystemTransfer(2, 1500000)>>]]
\* The same transfer with the two compute-budget directives in front.
BudgetedTransferTx ==
    [signatures |-> <<SomeSignature>>,
     message |-> [header |-> <<1, 0, 2>>,
                  account_keys |-> <<AliceKey, BobKey, SystemProgramKey,
                                     ComputeBudgetKey>>,
                  recent_blockhash |-> SomeBlockhash,
                  instructions |->
                     <<[program_id_index |-> 3, accounts |-> <<>>,
                        data |-> <<2>> \o U32LE(100000)],
                       [program_id_index |-> 3, accounts |-> <<>>,
                        data |-> <<3>> \o U64LE(0)],
                       WireSystemTransfer(2, 1500000)>>]]
\* A signed transfer from Alice to Carol.
CarolTransferTx ==
    [signatures |-> <<SomeSignature>>,
     message |-> [header |-> <<1, 0, 1>>,
                  account_keys |-> <<AliceKey, CarolKey, SystemProgramKey>>,
                  recent_blockhash |-> SomeBlockhash,
                  instructions |-> <<WireSystemTransfer(2, 1500000)>>]]

LegacyBlobs == {Base64Text(WireTransaction(TransferTx, FALSE))}
VersionedBlobs ==
    {Base64Text(WireTransaction(BudgetedTransferTx, TRUE)),
     Base64Text(WireTransaction(CarolTransferTx, TRUE))}
\* Base64 of three bytes, and text that is not base64.
OtherBlobs == {Base64Text(<<1, 2, 3>>), <<"!","!","!","!">>}

SubmitPayloads ==
    [network : Networks, transaction : LegacyBlobs \cup VersionedBlobs \cup OtherBlobs]

SubmitRequests ==
    [method : {"POST"}, path : {"/submit-transaction"}, body : SubmitPayloads]

UnroutedRequests ==
    [method : {"POST"}, path : {"/submit-versioned-transaction"},
     body : [network : Networks, transaction : VersionedBlobs]]
    \cup [method : {"GET"}, path : {"/submit-transaction"},
          body : [network : Networks, transaction : LegacyBlobs]]

\* Calls of the conditional-payment flow.
PAID_URL == <<"https://api.example/paid">>
X402Payloads ==
    [url : {PAID_URL},
     method : {<<"G","E","T">>, <<"p","o","s","t">>, <<"T","R","A","C","E">>},
     headers : {<<[name |-> <<"Accept">>, value |-> <<"*/*">>]>>},
     body : {None, Some(<<"{}">>)}]

X402Requests == [method : {"POST"}, path : {"/x402-request"}, body : X402Payloads]

\* The remote party: its fee payer and the blockhash it supplies.
FACILITATOR ==
    <<"L","m","H","Q","D","L","m","9","k","Z","W","s","a","k","p","h","1",
      "w","v","a","v","r","1","u","k","i","k","B","G","Q","a","T","h","T",
      "P","S","P","y","K","9","B","o","f">>
THEIR_BLOCKHASH ==
    <<"4","x","y","E","r","k","2","H","H","8","s","p","m","C","x","2","i",
      "Q","v","E","f","Q","T","L","n","V","3","F","x","b","9","Y","R","d",
      "P","8","W","o","y","z","V","R","P">>

Requirement(network, pay_to, max_amount_required) ==
    [asset |-> USDC_MINT, pay_to |-> pay_to,
     max_amount_required |-> max_amount_required, network |-> network,
     scheme |-> "exact",
     extra |-> [fee_payer |-> FACILITATOR, decimals |-> 6,
                recent_blockhash |-> THEIR_BLOCKHASH]]

\* Response bodies: plain text, or the JSON text of a requirements document.
TextBody(raw) == [raw |-> raw, x402 |-> None]
DocBody(raw, accepts) ==
    [raw |-> raw, x402 |-> Some([x402_version |-> 1, accepts |-> accepts])]

PaymentDocuments ==
    {DocBody(<<"solana offer">>, <<Requirement("solana", BOB, <<"1","0","0","0">>)>>),
     DocBody(<<"base offer">>, <<Requirement("base", BOB, <<"1","0","0","0">>)>>),
     DocBody(<<"base and polygon offer">>,
             <<Requirement("base", BOB, <<"1","0","0","0">>),
               Requirement("polygon", BOB, <<"1","0","0","0">>)>>),
     DocBody(<<"base and solana offer">>,
             <<Requirement("base", BOB, <<"1","0","0","0">>),
               Requirement("solana-mainnet-beta", BOB, <<"2","5","0","0">>)>>),
     DocBody(<<"nine decimals offer">>,
             <<[Requirement("solana", BOB, <<"1","0","0","0">>)
                   EXCEPT !.extra.decimals = 9]>>),
     DocBody(<<"offer paid by the local key">>,
             <<[Requirement("solana", BOB, <<"1","0","0","0">>)
                   EXCEPT !.extra.fee_payer = ALICE]>>),
     DocBody(<<"two solana offers">>,
             <<Requirement("base", BOB, <<"5","0","0">>),
               [Requirement("solana", BOB, <<"1","0","0","0">>)
                   EXCEPT !.scheme = "upto"],
               Requirement("solana-mainnet-beta", BOB, <<"2","5","0","0">>)>>),
     DocBody(<<"offer in another asset">>,
             <<[Requirement("solana", BOB, <<"1","0","0","0">>)
                   EXCEPT !.asset = USDT_MINT]>>),
     DocBody(<<"offer in no asset">>,
             <<[Requirement("solana", BOB, <<"1","0","0","0">>)
                   EXCEPT !.asset = NOT_BASE58]>>),
     DocBody(<<"offer with a bad recipient">>,
             <<Requirement("solana", NOT_BASE58, <<"1","0","0","0">>)>>),
     DocBody(<<"offer with a bad amount">>,
             <<Requirement("solana", BOB, <<"1",".","5">>)>>)}

HttpResponse(status, text) == [status |-> status, text |-> text]

\* What the remote server may answer to the first request.
InitialReplies ==
    {Err(<<"connection refused">>),
     Ok(HttpResponse(200, Ok(TextBody(<<"hello">>)))),
     Ok(HttpResponse(404, Ok(TextBody(<<"no such page">>)))),
     Ok(HttpResponse(200, Err(<<"body cut short">>))),
     Ok(HttpResponse(402, Ok(TextBody(<<"pay first">>)))),
     Ok(HttpResponse(402, Err(<<"body cut short">>)))}
    \cup {Ok(HttpResponse(402, Ok(d))) : d \in PaymentDocuments}

\* What it may answer to the request that carries the payment.
RetryReplies ==
    {Err(<<"connection refused">>),
     Ok(HttpResponse(200, Ok(TextBody(<<"paid content">>)))),
     Ok(HttpResponse(402, Ok(TextBody(<<"payment refused">>)))),
     Ok(HttpResponse(200, Err(<<"body cut short">>)))}

\* What ~/.fuego/wallet.json may hold.
AliceSecret == [i \in 1..SECRET_KEY_BYTES |-> 1]
WalletFile(private_key, address) ==
    Ok([raw |-> <<"wallet">>,
        wallet |-> Some([private_key |-> private_key, address |-> address,
                         network |-> "mainnet-beta"])])
WalletFiles ==
    {Err(<<"No such file or directory">>),
     Ok([raw |-> <<"not json">>, wallet |-> None]),
     WalletFile(AliceSecret \o AliceKey, ALICE),
     \* the secret key alone, without the public half
     WalletFile(AliceSecret, ALICE),
     \* an address that is not the keypair's
     WalletFile(AliceSecret \o AliceKey, BOB)}

Requests ==
    BuildRequests \cup SubmitRequests \cup X402Requests \cup UnroutedRequests

\* What the RPC node may answer to getLatestBlockhash.
Hashes == {<<"H","a","s","h","1">>, <<"H","a","s","h","2">>}
BlockhashReplies == {Ok(h) : h \in Hashes} \cup {Err(<<"rpc unreachable">>)}
\* What it may answer to sendTransaction: a signature, or a refusal.
SignatureTexts == {<<"5","i","g">>}
SendReplies == {Ok(t) : t \in SignatureTexts} \cup {Err(<<"rpc rejected">>)}

(***************************************************************************)
(* State                                                                   *)
(***************************************************************************)
NumSlots == 2
Slots == 1..NumSlots

VARIABLES
    pc,       \* per slot: where the request's handler is
    handler,  \* per slot: the handler the router chose
    req,      \* per slot: the request
    mem,      \* per slot: the handler's locals
    calls,    \* per slot: the calls the handler made to its collaborators
    resp,     \* per slot: the response
    state     \* the AppState every handler is given

vars == <<pc, handler, req, mem, calls, resp, state>>

\* AppState { default_network: "mainnet-beta".to_string() }
AppState == [default_network |-> "mainnet-beta"]

NoRequest == [method |-> "", path |-> "", body |-> <<>>]

Init ==
    /\ pc = [r \in Slots |-> "idle"]
    /\ handler = [r \in Slots |-> "none"]
    /\ req = [r \in Slots |-> NoRequest]
    /\ mem = [r \in Slots |-> <<>>]
    /\ calls = [r \in Slots |-> <<>>]
    /\ resp = [r \in Slots |-> NoResponse]
    /\ state = AppState

Call(name, target, arg, ret) == [call |-> name, target |-> target, arg |-> arg, ret |-> ret]

\* The first step of a handler.
EntryPoint(h) ==
    CASE h \in Builders -> "fetch_blockhash"
      [] h = "submit_transaction" -> "decode"
      [] h = "x402_request" -> "x402_send"
      [] h = "get_default_network" -> "read_state"
      [] OTHER -> "done"

\* The router dispatches request q to the handler of its method and path.
Dispatch(r, q) ==
    LET h == Route(q.method, q.path)
    IN  /\ req' = [req EXCEPT ![r] = q]
        /\ handler' = [handler EXCEPT ![r] = h]
        /\ pc' = [pc EXCEPT ![r] = EntryPoint(h)]
        /\ resp' = [resp EXCEPT ![r] =
               CASE h = "not_found" -> Fallback(404)
                 [] h = "method_not_allowed" -> Fallback(405)
                 [] OTHER -> NoResponse]
        /\ mem' = [mem EXCEPT ![r] = <<>>]
        /\ calls' = [calls EXCEPT ![r] = <<>>]
        /\ UNCHANGED state

\* A request arrives.
Receive(r) ==
    /\ pc[r] = "idle"
    /\ \E q \in Requests : Dispatch(r, q)

\* A faulty fetch, for comparison: the hash is kept where every handler
\* finds it, and a builder takes the one another builder has just fetched.
GetSharedBlockhash(r) ==
    /\ pc[r] = "fetch_blockhash"
    /\ \E reply \in BlockhashReplies :
         /\ calls' = [calls EXCEPT ![r] =
                Append(@, Call("get_latest_blockhash",
                               RpcUrl(req[r].body.network), <<>>, reply))]
         /\ mem' = [mem EXCEPT ![r] =
                IF \E s \in Slots : s # r /\ pc[s] = "assemble"
                THEN mem[CHOOSE s \in Slots : s # r /\ pc[s] = "assemble"]
                ELSE [blockhash |-> reply]]
    /\ pc' = [pc EXCEPT ![r] = "assemble"]
    /\ UNCHANGED <<handler, req, resp>>
    /\ UNCHANGED state

\* rpc.get_latest_blockhash(), the first statement of every builder.
GetLatestBlockhash(r) ==
    /\ pc[r] = "fetch_blockhash"
    /\ \E reply \in BlockhashReplies :
         /\ calls' = [calls EXCEPT ![r] =
                Append(@, Call("get_latest_blockhash",
                               RpcUrl(req[r].body.network), <<>>, reply))]
         /\ mem' = [mem EXCEPT ![r] = [blockhash |-> reply]]
    /\ pc' = [pc EXCEPT ![r] = "assemble"]
    /\ UNCHANGED <<handler, req, resp>>
    /\ UNCHANGED state

Finish(r, response) ==
    /\ resp' = [resp EXCEPT ![r] = response]
    /\ pc' = [pc EXCEPT ![r] = IF response.kind = "panic" THEN "panicked" ELSE "done"]

BuildTransferUsdc(r) ==
    /\ pc[r] = "assemble" /\ handler[r] = "build_transfer_usdc"
    /\ Finish(r, build_transfer_usdc(req[r].body, mem[r].blockhash))
    /\ UNCHANGED <<handler, req, mem, calls>>
    /\ UNCHANGED state

BuildTransferSol(r) ==
    /\ pc[r] = "assemble" /\ handler[r] = "build_transfer_sol"
    /\ Finish(r, build_transfer_sol(req[r].body, mem[r].blockhash))
    /\ UNCHANGED <<handler, req, mem, calls>>
    /\ UNCHANGED state

BuildTransferUsdt(r) ==
    /\ pc[r] = "assemble" /\ handler[r] = "build_transfer_usdt"
    /\ Finish(r, build_transfer_usdt(req[r].body, mem[r].blockhash))
    /\ UNCHANGED <<handler, req, mem, calls>>
    /\ UNCHANGED state

\* submit_transaction up to the RPC call: base64, then bincode.
SubmitDecode(r) ==
    /\ pc[r] = "decode" /\ handler[r] = "submit_transaction"
    /\ LET tx_bytes    == base64_decode(req[r].body.transaction)
           transaction == bincode_deserialize(tx_bytes.val)
       IN  IF ~tx_bytes.ok
           THEN /\ Finish(r, JsonErr(<<"Failed to decode transaction - invalid base64">>))
                /\ mem' = mem
           ELSE IF ~transaction.ok
           THEN /\ Finish(r, JsonErr(<<"Failed to deserialize transaction">>))
                /\ mem' = mem
           ELSE /\ mem' = [mem EXCEPT ![r] = [transaction |-> transaction.val]]
                /\ pc' = [pc EXCEPT ![r] = "send"]
                /\ resp' = resp
    /\ UNCHANGED <<handler, req, calls>>
    /\ UNCHANGED state

\* The "data" object of a successful submit.
SubmitData(payload, sig_string) ==
    [signature |-> sig_string,
     explorer_link |-> <<"https://explorer.solana.com/tx/">> \o sig_string
                       \o <<"?cluster=", payload.network>>,
     network |-> payload.network, status |-> "submitted"]

\* A faulty submit, for comparison: a refused transaction is sent again.
send_transaction_again(url, transaction, reply) ==
    IF reply.ok THEN <<Call("send_transaction", url, transaction, reply)>>
    ELSE <<Call("send_transaction", url, transaction, reply),
           Call("send_transaction", url, transaction, reply)>>

\* The calls submit_transaction makes to the RPC node for a decoded
\* transaction: rpc.send_transaction(&transaction), once.
send_transaction(url, transaction, reply) ==
    <<Call("send_transaction", url, transaction, reply)>>

\* The RPC call and the response made of its answer.
SubmitSend(r) ==
    /\ pc[r] = "send" /\ handler[r] = "submit_transaction"
    /\ \E reply \in SendReplies :
         /\ calls' = [calls EXCEPT ![r] =
                @ \o send_transaction(RpcUrl(req[r].body.network),
                                      mem[r].transaction, reply)]
         /\ Finish(r, IF reply.ok
                      THEN JsonOk(SubmitData(req[r].body, reply.val))
                      ELSE JsonErr(<<"Failed to submit transaction: ">> \o reply.err))
    /\ UNCHANGED <<handler, req, mem>>
    /\ UNCHANGED state

\* A step of the flow that makes no call: it returns or goes on to `next`.
X402Step(r, step, next) ==
    /\ IF step.done
       THEN Finish(r, step.resp) /\ mem' = mem
       ELSE /\ mem' = [mem EXCEPT ![r] = step.val]
            /\ pc' = [pc EXCEPT ![r] = next]
            /\ resp' = resp
    /\ UNCHANGED <<handler, req>>

\* Step 1: the first request is sent as the caller described it.
X402SendInitial(r) ==
    /\ pc[r] = "x402_send" /\ handler[r] = "x402_request"
    /\ LET request_builder_ == request_builder(req[r].body, <<>>)
       IN  IF ~request_builder_.ok
           THEN /\ X402Step(r, Return(JsonErr(request_builder_.err)), "x402_send")
                /\ calls' = calls
           ELSE \E reply \in InitialReplies :
                  /\ calls' = [calls EXCEPT ![r] =
                         Append(@, Call("http_send", req[r].body.url,
                                        request_builder_.val, reply))]
                  /\ X402Step(r,
                              IF reply.ok THEN Continue(reply.val)
                              ELSE Return(JsonErr(<<"Failed to make initial request: ">>
                                                  \o reply.err)),
                              "x402_status")
    /\ UNCHANGED state

\* The status check and the read of the first response's body.
X402ReadInitial(r) ==
    /\ pc[r] = "x402_status"
    /\ X402Step(r, x402_initial(mem[r]), "x402_parse")
    /\ calls' = calls
    /\ UNCHANGED state

\* Steps 2 and 3.
X402Requirements(r) ==
    /\ pc[r] = "x402_parse"
    /\ X402Step(r, x402_requirements(mem[r]), "x402_wallet")
    /\ calls' = calls
    /\ UNCHANGED state

\* Step 4: fs::read_to_string of the wallet file.
X402LoadWallet(r) ==
    /\ pc[r] = "x402_wallet"
    /\ \E wallet_content \in WalletFiles :
         LET wallet_store == x402_wallet(wallet_content)
         IN  /\ calls' = [calls EXCEPT ![r] =
                    Append(@, Call("read_to_string", WalletPath, <<>>, wallet_content))]
             /\ X402Step(r,
                         IF wallet_store.done THEN wallet_store
                         ELSE Continue([solana_req |-> mem[r],
                                        wallet_store |-> wallet_store.val]),
                         "x402_build")
    /\ UNCHANGED state

\* Step 5.
X402Build(r) ==
    /\ pc[r] = "x402_build"
    /\ LET built == x402_build(mem[r].solana_req, mem[r].wallet_store)
       IN  X402Step(r,
                    IF built.done THEN built
                    ELSE Continue([solana_req |-> mem[r].solana_req,
                                   wallet_store |-> mem[r].wallet_store,
                                   built |-> built.val]),
                    "x402_sign")
    /\ calls' = calls
    /\ UNCHANGED state

\* Steps 6 and 7.
X402Sign(r) ==
    /\ pc[r] = "x402_sign"
    /\ LET retry_builder == x402_sign(req[r].body, mem[r].built, mem[r].wallet_store)
       IN  X402Step(r,
                    IF retry_builder.done THEN retry_builder
                    ELSE Continue([solana_req |-> mem[r].solana_req,
                                   amount |-> mem[r].built.amount,
                                   retry |-> retry_builder.val]),
                    "x402_retry")
    /\ calls' = calls
    /\ UNCHANGED state

\* Step 8: the request is sent again with the X-Payment header.
X402SendRetry(r) ==
    /\ pc[r] = "x402_retry"
    /\ \E reply \in RetryReplies :
         /\ calls' = [calls EXCEPT ![r] =
                Append(@, Call("http_send", mem[r].retry.url, mem[r].retry, reply))]
         /\ X402Step(r,
                     IF reply.ok
                     THEN Continue([solana_req |-> mem[r].solana_req,
                                    amount |-> mem[r].amount,
                                    final_response |-> reply.val])
                     ELSE Return(JsonErr(<<"Failed to make retry request: ">>
                                         \o reply.err)),
                     "x402_final")
    /\ UNCHANGED state

\* The final response is read and returned with the payment details.
X402ReadFinal(r) ==
    /\ pc[r] = "x402_final"
    /\ Finish(r, x402_final(mem[r].final_response, mem[r].solana_req, mem[r].amount))
    /\ UNCHANGED <<handler, req, mem, calls>>
    /\ UNCHANGED state

\* The response is written to the client (or, after a panic, the connection
\* is closed) and the slot is free again.
Respond(r) ==
    /\ pc[r] \in {"done", "panicked"}
    /\ pc' = [pc EXCEPT ![r] = "idle"]
    /\ handler' = [handler EXCEPT ![r] = "none"]
    /\ req' = [req EXCEPT ![r] = NoRequest]
    /\ mem' = [mem EXCEPT ![r] = <<>>]
    /\ calls' = [calls EXCEPT ![r] = <<>>]
    /\ resp' = [resp EXCEPT ![r] = NoResponse]
    /\ UNCHANGED state

\* Requests served one at a time.
Accept(r) ==
    /\ \A s \in Slots : pc[s] = "idle"
    /\ Receive(r)

Next ==
    \E r \in Slots :
        \/ Accept(r)
        \/ GetLatestBlockhash(r)
        \/ BuildTransferUsdc(r)
        \/ BuildTransferSol(r)
        \/ BuildTransferUsdt(r)
        \/ SubmitDecode(r)
        \/ SubmitSend(r)
        \/ X402SendInitial(r)
        \/ X402ReadInitial(r)
        \/ X402Requirements(r)
        \/ X402LoadWallet(r)
        \/ X402Build(r)
        \/ X402Sign(r)
        \/ X402SendRetry(r)
        \/ X402ReadFinal(r)
        \/ Respond(r)

Spec == Init /\ [][Next]_vars

(***************************************************************************)
(* Requests served concurrently: tokio runs every handler as a task of its *)
(* own, and a request is taken whatever the other handlers are doing.      *)
(***************************************************************************)
NetworkRequests == {[method |-> "GET", path |-> "/network", body |-> <<>>]}

\* The requests of the concurrent view: one build per asset for the same
\* sender, a submit, a conditional payment and a read of the default
\* network.
ConcurrentRequests ==
    {q \in BuildRequests :
        /\ q.body.from_address = ALICE /\ q.body.to_address = BOB
        /\ q.body.amount = <<"1",".","5">>
        /\ ~q.body.notes.some /\ ~q.body.fee_amount.some}
    \cup {q \in SubmitRequests : q.body.transaction \in LegacyBlobs}
    \cup {q \in X402Requests : q.body.method = <<"G","E","T">> /\ ~q.body.body.some}
    \cup NetworkRequests

ReceiveConcurrent(r) ==
    /\ pc[r] = "idle"
    /\ \E q \in ConcurrentRequests : Dispatch(r, q)

\* Json(json!({"network": state.default_network}))
NetworkData(app_state) ==
    [kind |-> "json", http |-> 200, success |-> TRUE, error |-> <<>>,
     data |-> [network |-> app_state.default_network]]

GetDefaultNetwork(r) ==
    /\ pc[r] = "read_state" /\ handler[r] = "get_default_network"
    /\ Finish(r, NetworkData(state))
    /\ UNCHANGED <<handler, req, mem, calls>>
    /\ UNCHANGED state

\* What the collaborators answer in the concurrent view: the remote server
\* refuses the connection, asks for a Solana payment or serves the content;
\* the wallet file is missing or Alice's.
ConcurrentReplies ==
    {Err(<<"connection refused">>),
     Ok(HttpResponse(200, Ok(TextBody(<<"paid content">>))))}
    \cup {Ok(HttpResponse(402, Ok(d))) : d \in {doc \in PaymentDocuments :
                                                  doc.raw = <<"solana offer">>}}
    \cup {Err(<<"No such file or directory">>),
          WalletFile(AliceSecret \o AliceKey, ALICE)}

\* The last call of slot r was answered from `replies`.
AnsweredFrom(r, replies) == calls[r][Len(calls[r])].ret \in replies

ConcurrentSendInitial(r) ==
    /\ X402SendInitial(r)
    /\ calls'[r] # <<>> => AnsweredFrom(r, ConcurrentReplies)'

ConcurrentLoadWallet(r) ==
    /\ X402LoadWallet(r)
    /\ AnsweredFrom(r, ConcurrentReplies)'

ConcurrentSendRetry(r) ==
    /\ X402SendRetry(r)
    /\ AnsweredFrom(r, ConcurrentReplies)'

\* A step of the handler running in slot r.
HandlerStep(r) ==
    \/ GetLatestBlockhash(r)
    \/ BuildTransferUsdc(r)
    \/ BuildTransferSol(r)
    \/ BuildTransferUsdt(r)
    \/ SubmitDecode(r)
    \/ SubmitSend(r)
    \/ ConcurrentSendInitial(r)
    \/ X402ReadInitial(r)
    \/ X402Requirements(r)
    \/ ConcurrentLoadWallet(r)
    \/ X402Build(r)
    \/ X402Sign(r)
    \/ ConcurrentSendRetry(r)
    \/ X402ReadFinal(r)
    \/ GetDefaultNetwork(r)

NextConcurrent ==
    \E r \in Slots :
        \/ ReceiveConcurrent(r)
        \/ HandlerStep(r)
        \/ Respond(r)

SpecConcurrent == Init /\ [][NextConcurrent]_vars

(***************************************************************************)
(* Properties                                                              *)
(***************************************************************************)
\* A builder has answered in slot r.
BuilderDone(r) == handler[r] \in Builders /\ pc[r] = "done"

\* The builder of slot r got a blockhash, two valid addresses and the
\* amount "1.5": every step ahead of the memo passes.
StepsBeforeMemoPass(r) ==
    /\ calls[r] # <<>> /\ calls[r][1].ret.ok
    /\ req[r].body.from_address = ALICE
    /\ req[r].body.to_address = BOB
    /\ req[r].body.amount = <<"1",".","5">>

\* The transaction a successful build returns.
BuiltTransaction(r) == resp[r].data.transaction.base64.bincode

NoteTooLongPrefix == <<"Notes must be 16 characters or less, got ">>

\* C1: in each of the three builders a note longer than 16 characters is
\* rejected: the response is a failure carrying the note-too-long error and
\* no transaction is returned.
C1_LongNoteRejected ==
    \A r \in Slots :
        ( /\ BuilderDone(r) /\ StepsBeforeMemoPass(r)
          /\ req[r].body.notes.some /\ Len(req[r].body.notes.val) > 16 )
        => /\ resp[r].kind = "json" /\ ~resp[r].success
           /\ SubSeq(resp[r].error, 1, 1) = NoteTooLongPrefix

\* The USDT builder answers a 17-character note with a transaction whose
\* memo is empty.
C1_UsdtEmptyMemo ==
    \E r \in Slots :
        /\ BuilderDone(r) /\ handler[r] = "build_transfer_usdt"
        /\ req[r].body.notes = Some(NOTE17)
        /\ resp[r].success /\ resp[r].data.memo = <<>>
        /\ BuiltTransaction(r).message.instructions[4].data.text = <<>>

\* The compute-unit price of the transaction a successful build returns.
BuiltPrice(r) == BuiltTransaction(r).message.instructions[2].data.num

AssetDefaultPrice(h) == IF h = "build_transfer_usdt" THEN 100 ELSE 0

\* C2: in every built transaction the compute-unit-price directive carries
\* the request's fee value when one is supplied and the asset default
\* otherwise, in all three builders.
C2_PriceFromRequest ==
    \A r \in Slots :
        (BuilderDone(r) /\ resp[r].success)
        => /\ BuiltTransaction(r).message.instructions[2].data.tag = "SetComputeUnitPrice"
           /\ req[r].body.fee_amount = Some(<<"7">>) => BuiltPrice(r) = 7
           /\ req[r].body.fee_amount = None => BuiltPrice(r) = AssetDefaultPrice(handler[r])

\* The USDT builder is given the fee 7 and returns a transaction priced 100.
C2_UsdtIgnoresFee ==
    \E r \in Slots :
        /\ BuilderDone(r) /\ handler[r] = "build_transfer_usdt"
        /\ req[r].body.fee_amount = Some(<<"7">>)
        /\ resp[r].success /\ BuiltPrice(r) = 100

\* C3: every request that reaches a handler ends with a success payload or
\* a {success: false, error} payload; no handler aborts without one.
C3_AlwaysAPayload ==
    \A r \in Slots :
        ( /\ pc[r] \in {"done", "panicked"}
          /\ handler[r] \notin {"not_found", "method_not_allowed"} )
        => resp[r].kind = "json"

\* The conditional-payment flow aborts at the keypair when the wallet file
\* holds a 32-byte private key.
C3_X402Panics ==
    \E r \in Slots :
        /\ handler[r] = "x402_request" /\ pc[r] = "panicked"
        /\ resp[r] = Panicked
        /\ Len(calls[r]) = 2 /\ calls[r][2].call = "read_to_string"
        /\ Len(calls[r][2].ret.val.wallet.val.private_key) = 32

\* C4: in every transaction a builder returns the instructions are exactly
\* compute-unit limit, compute-unit price, transfer, memo, in that order.
C4_InstructionOrder ==
    \A r \in Slots :
        (BuilderDone(r) /\ resp[r].success)
        => LET ixs == BuiltTransaction(r).message.instructions
           IN  /\ Len(ixs) = 4
               /\ ixs[1].program_id = "ComputeBudget"
               /\ ixs[1].data.tag = "SetComputeUnitLimit"
               /\ ixs[2].program_id = "ComputeBudget"
               /\ ixs[2].data.tag = "SetComputeUnitPrice"
               /\ ixs[3].program_id \in {"System", "Token"}
               /\ ixs[3].data.tag = "Transfer"
               /\ ixs[4].program_id = "Memo"

\* Each of the three builders has returned a transaction.
C4_Built ==
    \E r \in Slots :
        /\ BuilderDone(r) /\ resp[r].success
        /\ req[r].body.notes = Some(NOTE16)
        /\ BuiltTransaction(r).message.instructions[4].data.text # <<>>
        /\ BuiltTransaction(r).message.instructions[3].program_id = "System"

\* C5: every transaction a builder returns has the request's sender as fee
\* payer, carries the blockhash fetched in that same request and is
\* unsigned; no builder reads the wallet file at any step.
C5_UnsignedSenderPays ==
    \A r \in Slots :
        handler[r] \in Builders
        => /\ \A i \in 1..Len(calls[r]) :
                 i = 1 /\ calls[r][i].call = "get_latest_blockhash"
           /\ (pc[r] = "done" /\ resp[r].success)
              => LET tx == BuiltTransaction(r)
                 IN  /\ tx.message.fee_payer
                          = string_to_pub_key(req[r].body.from_address).val
                     /\ Len(calls[r]) = 1
                     /\ tx.message.recent_blockhash = calls[r][1].ret.val
                     /\ resp[r].data.blockhash = calls[r][1].ret.val
                     /\ \A k \in DOMAIN tx.signatures :
                            tx.signatures[k] = DefaultSignature

\* A token builder has returned a transaction on the second blockhash.
C5_BuiltOnFetchedHash ==
    \E r \in Slots :
        /\ BuilderDone(r) /\ handler[r] = "build_transfer_usdc"
        /\ resp[r].success
        /\ calls[r][1].ret.val = <<"H","a","s","h","2">>
        /\ BuiltTransaction(r).message.fee_payer.bytes = AliceKey
        /\ DOMAIN BuiltTransaction(r).signatures = {Key(AliceKey)}

\* C6: in each of the three builders an amount that is not numeric yields
\* {success: false, error: "Invalid amount"} and no transaction.
C6_InvalidAmount ==
    \A r \in Slots :
        ( /\ BuilderDone(r)
          /\ calls[r] # <<>> /\ calls[r][1].ret.ok
          /\ req[r].body.from_address = ALICE /\ req[r].body.to_address = BOB
          /\ req[r].body.amount = <<"a","b","c">> )
        => resp[r] = JsonErr(<<"Invalid amount">>)

\* The USDT builder answers the amount "abc" with another message.
C6_UsdtOtherMessage ==
    \E r \in Slots :
        /\ BuilderDone(r) /\ handler[r] = "build_transfer_usdt"
        /\ req[r].body.amount = <<"a","b","c">>
        /\ resp[r] = JsonErr(<<"Invalid amount format">>)

\* The positions of the send_transaction calls of slot r.
Sends(r) == {i \in 1..Len(calls[r]) : calls[r][i].call = "send_transaction"}

\* The transaction that the submitted text of slot r decodes to.
DecodedInput(r) == bincode_deserialize(base64_decode(req[r].body.transaction).val)
Decodes(r) == base64_decode(req[r].body.transaction).ok /\ DecodedInput(r).ok

\* C7: submit_transaction calls send_transaction exactly once when base64
\* decoding and deserialization both succeed and never when either fails;
\* what it sends is the decoded input, and a refused broadcast is returned
\* as an error without a second call.
C7_SentOnce ==
    \A r \in Slots :
        handler[r] = "submit_transaction"
        => /\ Cardinality(Sends(r)) <= 1
           /\ Sends(r) # {} => Decodes(r)
           /\ \A i \in 1..Len(calls[r]) :
                 /\ i \in Sends(r)
                 /\ calls[r][i].arg = DecodedInput(r).val
                 /\ calls[r][i].target = RpcUrl(req[r].body.network)
           /\ pc[r] = "done"
              => /\ Cardinality(Sends(r)) = (IF Decodes(r) THEN 1 ELSE 0)
                 /\ resp[r].kind = "json"
                 /\ resp[r].success
                    <=> (Sends(r) # {} /\ calls[r][1].ret.ok)
                 /\ (Sends(r) # {} /\ ~calls[r][1].ret.ok)
                    => resp[r].error
                         = <<"Failed to submit transaction: ">> \o calls[r][1].ret.err

\* A legacy transaction was sent once, refused, and the refusal returned.
C7_RefusedOnce ==
    \E r \in Slots :
        /\ handler[r] = "submit_transaction" /\ pc[r] = "done"
        /\ req[r].body.transaction \in LegacyBlobs
        /\ Len(calls[r]) = 1 /\ calls[r][1].call = "send_transaction"
        /\ calls[r][1].arg = TransferTx
        /\ ~calls[r][1].ret.ok /\ ~resp[r].success

DecodeErrors ==
    {<<"Failed to decode transaction - invalid base64">>,
     <<"Failed to deserialize transaction">>}

\* C8: a versioned transaction given to submit_transaction fails with a
\* decode error: nothing is sent to the network and no signature returned.
C8_VersionedRefused ==
    \A r \in Slots :
        ( /\ handler[r] = "submit_transaction"
          /\ req[r].body.transaction \in VersionedBlobs )
        => /\ calls[r] = <<>>
           /\ pc[r] # "send"
           /\ pc[r] = "done"
              => (~resp[r].success /\ resp[r].error \in DecodeErrors)

\* A versioned transaction was read as a legacy one of two keys and no
\* instruction, sent, and its signature returned.
C8_VersionedSent ==
    \E r \in Slots :
        /\ handler[r] = "submit_transaction" /\ pc[r] = "done"
        /\ req[r].body.transaction
             = Base64Text(WireTransaction(BudgetedTransferTx, TRUE))
        /\ Len(calls[r]) = 1 /\ calls[r][1].call = "send_transaction"
        /\ calls[r][1].arg.message.header = <<128, 1, 0>>
        /\ Len(calls[r][1].arg.message.account_keys) = 2
        /\ calls[r][1].arg.message.instructions = <<>>
        /\ resp[r].success /\ resp[r].data.signature \in SignatureTexts

\* C9: POST /submit-versioned-transaction is routed to a handler that
\* decodes the versioned format and broadcasts it, returning the signature
\* and the explorer link.
C9_VersionedRoute ==
    \A r \in Slots :
        ( /\ req[r].method = "POST"
          /\ req[r].path = "/submit-versioned-transaction" )
        => /\ handler[r] \notin {"not_found", "method_not_allowed"}
           /\ resp[r].kind # "fallback"

\* POST /submit-versioned-transaction is answered by the router with 404
\* and no call is made.
C9_NotFound ==
    \E r \in Slots :
        /\ req[r].method = "POST"
        /\ req[r].path = "/submit-versioned-transaction"
        /\ handler[r] = "not_found" /\ pc[r] = "done"
        /\ resp[r] = Fallback(404) /\ calls[r] = <<>>

\* The first response of the flow in slot r came and is no 402.
FirstResponseNot402(r) ==
    /\ handler[r] = "x402_request"
    /\ calls[r] # <<>> /\ calls[r][1].call = "http_send"
    /\ calls[r][1].ret.ok
    /\ calls[r][1].ret.val.status # 402

\* C10: when the first response of the conditional-payment flow is not a
\* 402 and its body can be read, the flow ends in success with that status
\* and body as they came; when its body cannot be read, the flow ends in
\* failure with the error of that read.  In both cases the wallet file is
\* not read, no payment is built or signed and no second request is sent.
C10_PassThrough ==
    \A r \in Slots :
        FirstResponseNot402(r)
        => /\ Len(calls[r]) = 1
           /\ pc[r] \in {"x402_status", "done"}
           /\ (pc[r] = "done" /\ calls[r][1].ret.val.text.ok)
              => resp[r] = JsonOk([status |-> calls[r][1].ret.val.status,
                                   response |-> calls[r][1].ret.val.text.val,
                                   payment_required |-> FALSE])
           /\ (pc[r] = "done" /\ ~calls[r][1].ret.val.text.ok)
              => resp[r] = JsonErr(<<"Failed to read response: ">>
                                   \o calls[r][1].ret.val.text.err)

\* C10 as stated: a first response that is not a 402 always ends the flow
\* in success carrying that status.
C10_AlwaysSuccess ==
    \A r \in Slots :
        (FirstResponseNot402(r) /\ pc[r] = "done")
        => /\ resp[r].kind = "json" /\ resp[r].success
           /\ resp[r].data.status = calls[r][1].ret.val.status

\* A 404 from the remote server was passed through.
C10_PassedThrough404 ==
    \E r \in Slots :
        /\ FirstResponseNot402(r) /\ pc[r] = "done"
        /\ resp[r].success /\ resp[r].data.status = 404
        /\ resp[r].data.response = TextBody(<<"no such page">>)
        /\ ~resp[r].data.payment_required

\* The conditional-payment flow of slot r got a 402 whose body is a
\* requirements document.
GotRequirements(r) ==
    /\ handler[r] = "x402_request"
    /\ calls[r] # <<>> /\ calls[r][1].call = "http_send"
    /\ calls[r][1].ret.ok
    /\ calls[r][1].ret.val.status = 402
    /\ calls[r][1].ret.val.text.ok
    /\ calls[r][1].ret.val.text.val.x402.some

\* The entries of that document.
OfferedAccepts(r) == calls[r][1].ret.val.text.val.x402.val.accepts

\* The network tags of that document, in its order.
OfferedNetworks(r) ==
    [i \in 1..Len(OfferedAccepts(r)) |-> OfferedAccepts(r)[i].network]

NoSolanaOffer(r) ==
    /\ GotRequirements(r)
    /\ \A i \in 1..Len(OfferedAccepts(r)) :
          OfferedAccepts(r)[i].network \notin SolanaNetworks

UnsupportedNetwork ==
    <<"This API doesn't support Solana payments. Fuego only supports Solana x402 payments.">>

\* C11: when no entry of the requirements document has a recognized network
\* tag, the flow ends with the unsupported-network error that lists every
\* offered tag; up to then the first request is the only call made: the
\* wallet file is not read, nothing is signed and no retry is sent.
C11_UnsupportedNetwork ==
    \A r \in Slots :
        NoSolanaOffer(r)
        => /\ Len(calls[r]) = 1
           /\ pc[r] \in {"x402_status", "x402_parse", "done"}
           /\ pc[r] = "done"
              => /\ resp[r].kind = "json" /\ ~resp[r].success
                 /\ resp[r].error = UnsupportedNetwork
                 /\ resp[r].data.supported_networks = OfferedNetworks(r)

\* An offer of base and polygon was refused with both tags listed.
C11_BaseAndPolygonRefused ==
    \E r \in Slots :
        /\ NoSolanaOffer(r) /\ pc[r] = "done"
        /\ resp[r].error = UnsupportedNetwork
        /\ resp[r].data.supported_networks = <<"base", "polygon">>

\* The conditional-payment flow of slot r has read the wallet file.
WalletRead(r) ==
    /\ handler[r] = "x402_request"
    /\ Len(calls[r]) >= 2 /\ calls[r][2].call = "read_to_string"

NoCredential == <<"No wallet found. Initialize with: node src/cli/init.ts">>
InvalidWalletFormat == <<"Invalid wallet format">>

\* C12: a wallet file that is absent ends the conditional-payment flow with
\* the no-wallet error, and one that cannot be parsed ends it with another
\* error, the invalid-format one; in both cases the read of the file is the
\* last call of the flow: nothing is signed and no retry is sent.
C12_NoCredential ==
    /\ NoCredential # InvalidWalletFormat
    /\ \A r \in Slots :
          (WalletRead(r) /\ ~calls[r][2].ret.ok)
          => /\ pc[r] = "done" /\ Len(calls[r]) = 2
             /\ resp[r] = JsonErr(NoCredential)
    /\ \A r \in Slots :
          (WalletRead(r) /\ calls[r][2].ret.ok /\ ~calls[r][2].ret.val.wallet.some)
          => /\ pc[r] = "done" /\ Len(calls[r]) = 2
             /\ resp[r] = JsonErr(InvalidWalletFormat)

\* A flow ended on a wallet file that is no wallet.
C12_UnparsableWallet ==
    \E r \in Slots :
        /\ WalletRead(r) /\ pc[r] = "done"
        /\ calls[r][2].ret.ok /\ ~calls[r][2].ret.val.wallet.some
        /\ resp[r].error = InvalidWalletFormat

\* The conditional-payment flow of slot r has sent its retry request.
RetrySent(r) ==
    /\ handler[r] = "x402_request"
    /\ Len(calls[r]) >= 3 /\ calls[r][3].call = "http_send"

\* The requirement the flow selected, and the request it sent again.
SelectedRequirement(r) == find_solana_req(OfferedAccepts(r)).val
RetryRequest(r) == calls[r][3].arg

\* The value of the last header of the retry request, and the transaction
\* it carries.
PaymentHeader(r) == RetryRequest(r).headers[Len(RetryRequest(r).headers)]
PaymentTransaction(r) ==
    PaymentHeader(r).value.base64.json.payload.transaction.base64.bincode

\* C13: the payment transaction the flow attaches to its retry has the
\* remote party's fee payer as fee payer and the remote party's blockhash
\* as recent blockhash, the flow having fetched no blockhash of its own; its
\* instructions are the compute-unit limit 300000, the compute-unit price
\* 5000 and then the checked transfer, which carries the remote party's
\* decimals.
C13_RemoteTerms ==
    \A r \in Slots :
        RetrySent(r)
        => /\ PaymentTransaction(r).message.fee_payer
                = string_to_pub_key(SelectedRequirement(r).extra.fee_payer).val
           /\ PaymentTransaction(r).message.recent_blockhash
                = hash_from_str(SelectedRequirement(r).extra.recent_blockhash).val
           /\ \A i \in 1..Len(calls[r]) : calls[r][i].call # "get_latest_blockhash"
           /\ Len(PaymentTransaction(r).message.instructions) = 3
           /\ PaymentTransaction(r).message.instructions[1]
                = set_compute_unit_limit(300000)
           /\ PaymentTransaction(r).message.instructions[2]
                = set_compute_unit_price(5000)
           /\ PaymentTransaction(r).message.instructions[3].data.tag = "TransferChecked"
           /\ PaymentTransaction(r).message.instructions[3].data.text
                = <<SelectedRequirement(r).extra.decimals>>

\* A payment was attached for an offer that states nine decimals.
C13_NineDecimalsPaid ==
    \E r \in Slots :
        /\ RetrySent(r)
        /\ SelectedRequirement(r).extra.decimals = 9
        /\ PaymentTransaction(r).message.instructions[3].data.text = <<9>>
        /\ PaymentTransaction(r).message.fee_payer = string_to_pub_key(FACILITATOR).val

\* The wallet the flow of slot r loaded, and the public key of its keypair.
LoadedWallet(r) == calls[r][2].ret.val.wallet.val
LocalKey(r) == keypair_from_bytes(LoadedWallet(r).private_key).val.pubkey
RemoteFeePayer(r) == string_to_pub_key(SelectedRequirement(r).extra.fee_payer).val

\* C14: when the remote party's fee payer is not the local key, the
\* transaction attached to the retry has two signature slots: the local
\* key's, which is the sender's and is filled, and the fee payer's, which
\* is still unsigned.
C14_PartialSignature ==
    \A r \in Slots :
        (RetrySent(r) /\ RemoteFeePayer(r) # LocalKey(r))
        => /\ LocalKey(r) = string_to_pub_key(LoadedWallet(r).address).val
           /\ DOMAIN PaymentTransaction(r).signatures = {LocalKey(r), RemoteFeePayer(r)}
           /\ PaymentTransaction(r).signatures[LocalKey(r)] = "signed"
           /\ PaymentTransaction(r).signatures[RemoteFeePayer(r)] = DefaultSignature

\* A retry carried a transaction signed by Alice and not by the facilitator.
C14_FacilitatorSlotOpen ==
    \E r \in Slots :
        /\ RetrySent(r)
        /\ LocalKey(r) = string_to_pub_key(ALICE).val
        /\ RemoteFeePayer(r) = string_to_pub_key(FACILITATOR).val
        /\ PaymentTransaction(r).signatures[LocalKey(r)] = "signed"
        /\ PaymentTransaction(r).signatures[RemoteFeePayer(r)] = DefaultSignature

\* The first request of the flow of slot r, and the answer to its retry.
FirstRequest(r) == calls[r][1].arg
RetryReply(r) == calls[r][3].ret

\* C15: the retry is the first request again, to the same URL with the same
\* method, headers and body, and with the X-Payment header after the
\* caller's headers.  When the retry is answered and the body of the answer
\* can be read, the flow returns that status and body with the amount, the
\* recipient and the fee payer of the selected requirement; when the body
\* cannot be read, the flow returns the error of that read.
C15_RetryAndEcho ==
    \A r \in Slots :
        RetrySent(r)
        => /\ calls[r][3].target = calls[r][1].target
           /\ RetryRequest(r).url = FirstRequest(r).url
           /\ RetryRequest(r).method = FirstRequest(r).method
           /\ RetryRequest(r).body = FirstRequest(r).body
           /\ RetryRequest(r).headers
                = FirstRequest(r).headers \o <<PaymentHeader(r)>>
           /\ PaymentHeader(r).name = <<"X-Payment">>
           /\ (pc[r] = "done" /\ RetryReply(r).ok /\ RetryReply(r).val.text.ok)
              => /\ resp[r].kind = "json" /\ resp[r].success
                 /\ resp[r].data.status = RetryReply(r).val.status
                 /\ resp[r].data.response = RetryReply(r).val.text.val
                 /\ resp[r].data.payment_required
                 /\ resp[r].data.payment_details.amount
                      = ParseU64(SelectedRequirement(r).max_amount_required).val
                 /\ resp[r].data.payment_details.recipient
                      = SelectedRequirement(r).pay_to
                 /\ resp[r].data.payment_details.fee_payer
                      = SelectedRequirement(r).extra.fee_payer
           /\ (pc[r] = "done" /\ RetryReply(r).ok /\ ~RetryReply(r).val.text.ok)
              => resp[r] = JsonErr(<<"Failed to read final response: ">>
                                   \o RetryReply(r).val.text.err)

\* C15 as stated: whenever the retry is answered, the flow returns the
\* status of that answer.
C15_AlwaysReturnsRetried ==
    \A r \in Slots :
        (RetrySent(r) /\ pc[r] = "done" /\ RetryReply(r).ok)
        => /\ resp[r].kind = "json" /\ resp[r].success
           /\ resp[r].data.status = RetryReply(r).val.status

\* A POST with a body was retried with the payment attached, and the paid
\* content came back with the payment of 2500 to Bob echoed.
C15_PostRetriedAndEchoed ==
    \E r \in Slots :
        /\ RetrySent(r) /\ pc[r] = "done"
        /\ RetryRequest(r).method = <<"P","O","S","T">>
        /\ RetryRequest(r).body = Some(<<"{}">>)
        /\ Len(RetryRequest(r).headers) = 2
        /\ resp[r].success /\ resp[r].data.status = 200
        /\ resp[r].data.response = TextBody(<<"paid content">>)
        /\ resp[r].data.payment_details.amount = 2500
        /\ resp[r].data.payment_details.recipient = BOB
        /\ resp[r].data.payment_details.fee_payer = FACILITATOR

\* The asset tag and the base-unit digits of "1.5" in each builder's memo.
MemoAsset(h) ==
    CASE h = "build_transfer_usdc" -> <<"U","S","D","C">>
      [] h = "build_transfer_sol" -> <<"S","O","L">>
      [] h = "build_transfer_usdt" -> <<"U","S","D","T">>

MemoAmountOfOneAndAHalf(h) ==
    IF h = "build_transfer_sol"
    THEN <<"1","5","0","0","0","0","0","0","0","0">>
    ELSE <<"1","5","0","0","0","0","0">>

\* fuego|<ASSET>|f:<sender>|t:<recipient>|a:<amount>|yid:<id>|n:<note>
ExpectedMemoWith(r, amount_digits) ==
    <<"f","u","e","g","o","|">> \o MemoAsset(handler[r])
    \o <<"|","f",":">> \o req[r].body.from_address
    \o <<"|","t",":">> \o req[r].body.to_address
    \o <<"|","a",":">> \o amount_digits
    \o <<"|","y","i","d",":">> \o req[r].body.yid
    \o <<"|","n",":">>
    \o (IF req[r].body.notes.some THEN req[r].body.notes.val ELSE <<>>)

ExpectedMemo(r) == ExpectedMemoWith(r, MemoAmountOfOneAndAHalf(handler[r]))

\* C16: in the builders that return the memo encoder's verdict (USDC and
\* native coin), a note of 17 or more characters is refused with the
\* note-too-long error, and a note of at most 16 characters, or no note, is
\* accepted and gives exactly the memo
\* fuego|<ASSET>|f:<sender>|t:<recipient>|a:<amount>|yid:<id>|n:<note>,
\* with nothing after n: when no note is given.
C16_MemoEncoder ==
    \A r \in Slots :
        ( /\ BuilderDone(r) /\ StepsBeforeMemoPass(r)
          /\ handler[r] \in {"build_transfer_usdc", "build_transfer_sol"} )
        => IF req[r].body.notes.some /\ Len(req[r].body.notes.val) > 16
           THEN /\ ~resp[r].success
                /\ SubSeq(resp[r].error, 1, 1) = NoteTooLongPrefix
           ELSE /\ resp[r].success
                /\ resp[r].data.memo = ExpectedMemo(r)

\* A note of sixteen characters, one of them two bytes wide, was refused as
\* being 17 long.
C16_WideNoteRefused ==
    \E r \in Slots :
        /\ BuilderDone(r) /\ handler[r] = "build_transfer_usdc"
        /\ StepsBeforeMemoPass(r)
        /\ req[r].body.notes = Some(NOTE16_WIDE)
        /\ Len(req[r].body.notes.val) = 16
        /\ ~resp[r].success
        /\ resp[r].error = NoteTooLongPrefix \o <<"1","7">>

\* The decimals of each builder's asset, and the base units its transfer
\* instruction moves, a wide integer.
AssetDecimals(h) == IF h = "build_transfer_sol" THEN 9 ELSE 6
BuiltAmount(r) == BuiltTransaction(r).message.instructions[3].data.num

ONE_AND_A_HALF == <<"1",".","5">>
ONE_POINT_005 == <<"1",".","0","0","5">>
ONE_BILLIONTH == <<"0",".","0","0","0","0","0","0","0","0","1">>

InvalidAmountError(h) ==
    IF h = "build_transfer_usdt" THEN <<"Invalid amount format">>
    ELSE <<"Invalid amount">>

FetchFails(r) == ~calls[r][1].ret.ok
SenderFails(r) == ~string_to_pub_key(req[r].body.from_address).ok
RecipientFails(r) == ~string_to_pub_key(req[r].body.to_address).ok
AmountFails(r) == ~ParseF64(req[r].body.amount).ok
MemoFails(r) == req[r].body.notes.some /\ ByteLen(req[r].body.notes.val) > 16

\* The error of the earliest failing step of the builder in slot r.
EarliestError(r) ==
    IF FetchFails(r) THEN <<"Failed to fetch blockhash: ">> \o calls[r][1].ret.err
    ELSE IF SenderFails(r) THEN <<"Invalid from_address">>
    ELSE IF RecipientFails(r) THEN <<"Invalid to_address">>
    ELSE IF AmountFails(r) THEN InvalidAmountError(handler[r])
    ELSE NoteTooLongPrefix \o FormatU64(ByteLen(req[r].body.notes.val))

\* The blockhash was asked for once, ahead of everything else.
FetchedOnce(r) ==
    /\ Len(calls[r]) = 1
    /\ calls[r][1].call = "get_latest_blockhash"
    /\ calls[r][1].target = RpcUrl(req[r].body.network)

\* C19: every builder asks for the blockhash first and exactly once, and
\* when one of the steps blockhash, sender key, recipient key, amount, memo
\* fails it answers with the error of the earliest failing one and returns
\* no transaction.
C19_EarliestFailureReported ==
    \A r \in Slots :
        BuilderDone(r)
        => /\ FetchedOnce(r)
           /\ (FetchFails(r) \/ SenderFails(r) \/ RecipientFails(r)
                 \/ AmountFails(r) \/ MemoFails(r))
              => resp[r] = JsonErr(EarliestError(r))

\* The same with the memo step of the USDT builder left out: that builder
\* goes on with an empty memo when build_memo fails.
C19_OrderApartFromUsdtMemo ==
    \A r \in Slots :
        BuilderDone(r)
        => /\ FetchedOnce(r)
           /\ (FetchFails(r) \/ SenderFails(r) \/ RecipientFails(r)
                 \/ AmountFails(r)
                 \/ (MemoFails(r) /\ handler[r] # "build_transfer_usdt"))
              => resp[r] = JsonErr(EarliestError(r))

\* The USDT builder went past a failing memo step: every earlier step
\* passed, the note is too long, and the answer is a transaction whose memo
\* instruction is empty.
C19_UsdtPastFailingMemo ==
    \E r \in Slots :
        /\ BuilderDone(r) /\ handler[r] = "build_transfer_usdt"
        /\ FetchedOnce(r)
        /\ ~FetchFails(r) /\ ~SenderFails(r) /\ ~RecipientFails(r) /\ ~AmountFails(r)
        /\ MemoFails(r)
        /\ resp[r].success
        /\ BuiltTransaction(r).message.instructions[4].data.text = <<>>

\* Several fields are invalid at once and the fetch failed too: the answer
\* is the network error.
C19_FetchErrorFirst ==
    \E r \in Slots :
        /\ BuilderDone(r)
        /\ FetchFails(r) /\ SenderFails(r) /\ RecipientFails(r) /\ AmountFails(r)
        /\ resp[r] = JsonErr(<<"Failed to fetch blockhash: ">> \o <<"rpc unreachable">>)

\* The states of the conditional-payment flow, in order: Init, RequestSent,
\* PaymentRequired, RequirementsParsed, CredentialLoaded, PaymentBuilt,
\* PaymentSigned, RetrySent; the flow is over at "done" and at "panicked".
X402Stages ==
    <<"x402_send", "x402_status", "x402_parse", "x402_wallet", "x402_build",
      "x402_sign", "x402_retry", "x402_final">>
X402Over == {"done", "panicked"}
StageOf(p) == IF p \in X402Over THEN Len(X402Stages) + 1 ELSE IndexOf(X402Stages, p)

HttpSends(r) == {i \in 1..Len(calls[r]) : calls[r][i].call = "http_send"}

\* A step of the flow in slot r goes to the next stage or ends the flow,
\* and a request goes out only from Init and from PaymentSigned.
X402Forward(r) ==
    (handler[r] = "x402_request" /\ pc[r] \notin X402Over /\ pc'[r] # pc[r])
    => /\ handler'[r] = "x402_request"
       /\ pc'[r] \in X402Over \/ StageOf(pc'[r]) = StageOf(pc[r]) + 1
       /\ calls'[r] # calls[r]
          => /\ Len(calls'[r]) = Len(calls[r]) + 1
             /\ SubSeq(calls'[r], 1, Len(calls[r])) = calls[r]
             /\ calls'[r][Len(calls'[r])].call = "http_send"
                => pc[r] \in {"x402_send", "x402_retry"}

\* At most two requests go out, the second one after the wallet was read
\* and carrying a transaction the local key has signed.
X402RetryDiscipline(r) ==
    handler[r] = "x402_request"
    => /\ Cardinality(HttpSends(r)) <= 2
       /\ HttpSends(r) \subseteq {1, 3}
       /\ 3 \in HttpSends(r)
          => /\ Len(calls[r]) = 3
             /\ calls[r][1].ret.ok /\ calls[r][2].call = "read_to_string"
             /\ PaymentTransaction(r).signatures[LocalKey(r)] = "signed"
       /\ (pc[r] \in X402Over /\ ~resp[r].success /\ RetrySent(r))
          => \/ ~RetryReply(r).ok
             \/ ~RetryReply(r).val.text.ok

\* A flow that ended without success ended with {success: false, error}.
X402StructuredFailure(r) ==
    (handler[r] = "x402_request" /\ pc[r] \in X402Over /\ ~resp[r].success)
    => resp[r].kind = "json" /\ resp[r].error # <<>>

\* C20: the conditional-payment flow only moves forward through its stages;
\* it sends at most two requests, the retry at most once and only with the
\* payment signed; and a failure at any step ends it with a structured error
\* and without another retry.
C20_ForwardFlow ==
    /\ [][\A r \in Slots : X402Forward(r)]_vars
    /\ [](\A r \in Slots : X402RetryDiscipline(r))
    /\ [](\A r \in Slots : X402StructuredFailure(r))

\* The same, a flow being allowed to end at PaymentBuilt with no payload at
\* all: Keypair::from_bytes(..).unwrap() on a key that is not a keypair.
C20_ForwardApartFromPanic ==
    /\ [][\A r \in Slots : X402Forward(r)]_vars
    /\ [](\A r \in Slots : X402RetryDiscipline(r))
    /\ [](\A r \in Slots :
            \/ X402StructuredFailure(r)
            \/ /\ pc[r] = "panicked" /\ resp[r] = Panicked
               /\ Len(calls[r]) = 2
               /\ ~keypair_from_bytes(LoadedWallet(r).private_key).ok)

\* A flow ended at PaymentBuilt with no payload: one request was sent, the
\* payment was built, and the signing step aborted.
C20_EndedWithoutPayload ==
    \E r \in Slots :
        /\ handler[r] = "x402_request" /\ pc[r] = "panicked"
        /\ HttpSends(r) = {1}
        /\ mem[r].built.amount > 0
        /\ resp[r].kind = "panic"

\* The response submit_transaction gives to request payload when the RPC
\* node answers as in `trace`.
SubmitAlone(payload, trace) ==
    LET tx_bytes    == base64_decode(payload.transaction)
        transaction == bincode_deserialize(tx_bytes.val)
    IN  IF ~tx_bytes.ok
        THEN JsonErr(<<"Failed to decode transaction - invalid base64">>)
        ELSE IF ~transaction.ok THEN JsonErr(<<"Failed to deserialize transaction">>)
        ELSE IF trace[1].ret.ok THEN JsonOk(SubmitData(payload, trace[1].ret.val))
        ELSE JsonErr(<<"Failed to submit transaction: ">> \o trace[1].ret.err)

\* The response x402_request gives to request payload when the remote
\* server and the wallet file answer as in `trace`.
X402Alone(payload, trace) ==
    LET request_builder_ == request_builder(payload, <<>>)
        initial      == x402_initial(trace[1].ret.val)
        solana_req   == x402_requirements(initial.val)
        wallet_store == x402_wallet(trace[2].ret)
        built        == x402_build(solana_req.val, wallet_store.val)
        retry_builder == x402_sign(payload, built.val, wallet_store.val)
    IN  IF ~request_builder_.ok THEN JsonErr(request_builder_.err)
        ELSE IF ~trace[1].ret.ok
        THEN JsonErr(<<"Failed to make initial request: ">> \o trace[1].ret.err)
        ELSE IF initial.done THEN initial.resp
        ELSE IF solana_req.done THEN solana_req.resp
        ELSE IF wallet_store.done THEN wallet_store.resp
        ELSE IF built.done THEN built.resp
        ELSE IF retry_builder.done THEN retry_builder.resp
        ELSE IF ~trace[3].ret.ok
        THEN JsonErr(<<"Failed to make retry request: ">> \o trace[3].ret.err)
        ELSE x402_final(trace[3].ret.val, solana_req.val, built.val.amount)

\* The response handler h gives to request q when it runs alone and its
\* collaborators answer as in `trace`.
AloneResponse(h, q, trace) ==
    CASE h = "build_transfer_usdc" -> build_transfer_usdc(q.body, trace[1].ret)
      [] h = "build_transfer_sol" -> build_transfer_sol(q.body, trace[1].ret)
      [] h = "build_transfer_usdt" -> build_transfer_usdt(q.body, trace[1].ret)
      [] h = "submit_transaction" -> SubmitAlone(q.body, trace)
      [] h = "x402_request" -> X402Alone(q.body, trace)
      [] h = "get_default_network" -> NetworkData(AppState)
      [] h = "not_found" -> Fallback(404)
      [] h = "method_not_allowed" -> Fallback(405)

Answered(r) == pc[r] \in {"done", "panicked"}

\* What a handler has of its own.
SlotOf(r) == <<pc[r], handler[r], req[r], mem[r], calls[r], resp[r]>>

\* A step is the step of one handler: it leaves the AppState and every
\* other handler's request, locals, calls and response as they are.
OneHandlerSteps ==
    /\ state' = state
    /\ \A r, s \in Slots : (r # s /\ SlotOf(r)' # SlotOf(r)) => SlotOf(s)' = SlotOf(s)

\* The handlers read the wallet file and never write it: whatever they do
\* with their collaborators is an RPC call, an HTTP request or a read.
ReadOnlyCalls ==
    \A r \in Slots : \A i \in 1..Len(calls[r]) :
        /\ calls[r][i].call
             \in {"get_latest_blockhash", "send_transaction", "http_send",
                  "read_to_string"}
        /\ calls[r][i].target = WalletPath => calls[r][i].call = "read_to_string"

\* No handler waits for another: whatever the other slots are doing, a free
\* slot takes a request, and a handler that has reached its first call to a
\* collaborator (the blockhash fetch of a builder, the first request of the
\* payment flow) or the read of the AppState goes ahead with it.
NeverBlocked ==
    \A r \in Slots :
        /\ pc[r] = "idle" => ENABLED ReceiveConcurrent(r)
        /\ pc[r] = "fetch_blockhash" => ENABLED GetLatestBlockhash(r)
        /\ pc[r] = "x402_send" => ENABLED ConcurrentSendInitial(r)
        /\ pc[r] = "read_state" => ENABLED GetDefaultNetwork(r)

\* C18: under every interleaving of the handlers, no step writes the
\* AppState or the wallet file or touches another handler's request, and
\* the response of every request is the one its handler gives when it runs
\* alone and its collaborators answer the same; no handler is blocked by
\* another.
C18_Independent ==
    /\ [][OneHandlerSteps]_vars
    /\ [](state = AppState /\ ReadOnlyCalls /\ NeverBlocked)
    /\ [](\A r \in Slots :
            Answered(r) => resp[r] = AloneResponse(handler[r], req[r], calls[r]))

\* Two builds for the same sender were in flight together and were answered
\* with different blockhashes, each with the response it gets alone.
C18_TwoBuildsTwoHashes ==
    \E r, s \in Slots :
        /\ r # s
        /\ BuilderDone(r) /\ BuilderDone(s)
        /\ resp[r].success /\ resp[s].success
        /\ req[r].body.from_address = req[s].body.from_address
        /\ resp[r].data.blockhash # resp[s].data.blockhash
        /\ resp[r] = AloneResponse(handler[r], req[r], calls[r])
        /\ resp[s] = AloneResponse(handler[s], req[s], calls[s])

\* The checked transfer of the payment: the third instruction, with the
\* accounts source, mint, destination, authority.
PaymentTransfer(r) == PaymentTransaction(r).message.instructions[3]
UsdcMintKey == string_to_pub_key(USDC_MINT).val
SenderKey(r) == string_to_pub_key(LoadedWallet(r).address).val
RecipientKey(r) == string_to_pub_key(SelectedRequirement(r).pay_to).val

\* The selected requirement with the asset of the code in place of its own.
InUsdc(solana_req) == [solana_req EXCEPT !.asset = USDC_MINT]

\* The wallet of the flow in slot r was read and parsed.
WalletLoaded(r) == WalletRead(r) /\ ~x402_wallet(calls[r][2].ret).done

\* C21: the payment attached to a retry is a checked transfer on the USDC
\* mint, from the sender's USDC account to the recipient's, whatever asset
\* the selected requirement names; the building step gives what it gives
\* for the same requirement in USDC, and no flow is ended over the mint.
C21_AlwaysUsdcMint ==
    \A r \in Slots :
        /\ RetrySent(r)
           => /\ PaymentTransfer(r).data.tag = "TransferChecked"
              /\ PaymentTransfer(r).accounts[2].pubkey = UsdcMintKey
              /\ PaymentTransfer(r).accounts[1].pubkey
                   = get_associated_token_address(SenderKey(r), UsdcMintKey)
              /\ PaymentTransfer(r).accounts[3].pubkey
                   = get_associated_token_address(RecipientKey(r), UsdcMintKey)
        /\ WalletLoaded(r)
           => x402_build(SelectedRequirement(r), LoadedWallet(r))
                = x402_build(InUsdc(SelectedRequirement(r)), LoadedWallet(r))
        /\ (handler[r] = "x402_request" /\ pc[r] = "done")
           => resp[r].error # <<"Invalid USDC mint">>

\* A requirement whose asset is no key at all was paid on the USDC mint.
C21_OtherAssetPaidInUsdc ==
    \E r \in Slots :
        /\ RetrySent(r)
        /\ SelectedRequirement(r).asset = NOT_BASE58
        /\ ~string_to_pub_key(SelectedRequirement(r).asset).ok
        /\ PaymentTransfer(r).accounts[2].pubkey = UsdcMintKey

\* A requirement that names the USDT mint was paid on the USDC mint.
C21_UsdtOfferPaidInUsdc ==
    \E r \in Slots :
        /\ RetrySent(r)
        /\ SelectedRequirement(r).asset = USDT_MINT
        /\ PaymentTransfer(r).accounts[2].pubkey = UsdcMintKey

\* The place, in the order of the document, of the first entry tagged
\* "solana" or "solana-mainnet-beta".
IsSolanaTag(tag) == tag = "solana" \/ tag = "solana-mainnet-beta"
FirstSolanaEntry(r) ==
    CHOOSE i \in 1..Len(OfferedAccepts(r)) :
        /\ IsSolanaTag(OfferedAccepts(r)[i].network)
        /\ \A j \in 1..(i - 1) : ~IsSolanaTag(OfferedAccepts(r)[j].network)

\* What the X-Payment header of the retry declares.
DeclaredPayment(r) == PaymentHeader(r).value.base64.json

\* C22: the payment of a retry is made to the terms of the first entry of
\* the document tagged "solana" or "solana-mainnet-beta" (its amount, its
\* recipient, its fee payer, and the same in the echoed details), and the
\* X-Payment header declares version 1, scheme "exact" and network
\* "solana-mainnet-beta", whatever tag and scheme that entry has.
C22_FirstSolanaEntry ==
    \A r \in Slots :
        RetrySent(r)
        => /\ PaymentTransfer(r).data.num
                = ParseU64(OfferedAccepts(r)[FirstSolanaEntry(r)].max_amount_required).val
           /\ PaymentTransfer(r).accounts[3].pubkey
                = get_associated_token_address(
                      string_to_pub_key(OfferedAccepts(r)[FirstSolanaEntry(r)].pay_to).val,
                      UsdcMintKey)
           /\ PaymentTransaction(r).message.fee_payer
                = string_to_pub_key(
                      OfferedAccepts(r)[FirstSolanaEntry(r)].extra.fee_payer).val
           /\ DeclaredPayment(r).x402Version = 1
           /\ DeclaredPayment(r).scheme = "exact"
           /\ DeclaredPayment(r).network = "solana-mainnet-beta"
           /\ (pc[r] = "done" /\ resp[r].success)
              => /\ resp[r].data.payment_details.amount
                      = PaymentTransfer(r).data.num
                 /\ resp[r].data.payment_details.recipient
                      = OfferedAccepts(r)[FirstSolanaEntry(r)].pay_to

\* Of a base entry, a "solana" entry of scheme "upto" for 1000 and a
\* "solana-mainnet-beta" entry for 2500, the second was paid: 1000, declared
\* as "exact" on "solana-mainnet-beta".
C22_UptoSolanaEntryPaid ==
    \E r \in Slots :
        /\ RetrySent(r)
        /\ OfferedNetworks(r) = <<"base", "solana", "solana-mainnet-beta">>
        /\ OfferedAccepts(r)[2].scheme = "upto"
        /\ PaymentTransfer(r).data.num = 1000
        /\ DeclaredPayment(r).scheme = "exact"
        /\ DeclaredPayment(r).network = "solana-mainnet-beta"

NOT_A_NUMBER == <<"N","a","N">>
MINUS_TWO == <<"-","2">>
TEN_TO_THE_20 == <<"1","e","2","0">>
INFINITE == <<"i","n","f">>
\* The decimal digits of u64::MAX.
U64_MAX_TEXT ==
    <<"1","8","4","4","6","7","4","4","0","7","3","7","0","9","5","5","1","6","1","5">>

\* Every step of the builder in slot r other than the amount passes; the
\* USDT builder goes on past a memo that fails.
OtherStepsPass(r) ==
    /\ ~FetchFails(r) /\ ~SenderFails(r) /\ ~RecipientFails(r)
    /\ handler[r] # "build_transfer_usdt" => ~MemoFails(r)

\* C23: a builder never rejects an amount that parses as a number.  When the
\* other steps pass the build succeeds; a negative or not-a-number amount
\* becomes 0 base units, and an amount too large for 64 bits becomes u64::MAX;
\* the transfer instruction carries the converted amount, the memo
\* instruction carries the returned memo, and the memo carries the converted
\* amount in its a: field.
C23_SaturatingAmount ==
    \A r \in Slots :
        (BuilderDone(r) /\ ~AmountFails(r))
        => /\ resp[r].kind = "json"
           /\ resp[r].error # InvalidAmountError(handler[r])
           /\ OtherStepsPass(r) => resp[r].success
           /\ resp[r].success
              => /\ BuiltTransaction(r).message.instructions[4].data.text
                      = resp[r].data.memo
                 /\ ~MemoFails(r)
                    => resp[r].data.memo
                         = ExpectedMemoWith(r, FormatWideU64(BuiltAmount(r)))
                 /\ req[r].body.amount \in {MINUS_TWO, NOT_A_NUMBER}
                    => /\ BuiltAmount(r) = BigOfInt(0)
                       /\ ~MemoFails(r)
                          => resp[r].data.memo = ExpectedMemoWith(r, <<"0">>)
                 /\ req[r].body.amount \in {TEN_TO_THE_20, INFINITE}
                    => /\ BuiltAmount(r) = U64_MAX
                       /\ ~MemoFails(r)
                          => resp[r].data.memo = ExpectedMemoWith(r, U64_MAX_TEXT)

\* The USDC builder turned "1e20" into u64::MAX, in the transfer and in the
\* memo of a successful build.
C23_TooLargeIsU64Max ==
    \E r \in Slots :
        /\ BuilderDone(r) /\ handler[r] = "build_transfer_usdc"
        /\ req[r].body.amount = TEN_TO_THE_20
        /\ resp[r].success
        /\ BuiltAmount(r) = U64_MAX
        /\ resp[r].data.memo = ExpectedMemoWith(r, U64_MAX_TEXT)

\* The native-coin builder turned "NaN" into 0 lamports, in the transfer and
\* in the memo of a successful build.
C23_NotANumberIsZero ==
    \E r \in Slots :
        /\ BuilderDone(r) /\ handler[r] = "build_transfer_sol"
        /\ req[r].body.amount = NOT_A_NUMBER
        /\ resp[r].success
        /\ BuiltAmount(r) = BigOfInt(0)
        /\ resp[r].data.memo = ExpectedMemoWith(r, <<"0">>)

=============================================================================
